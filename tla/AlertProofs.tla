----------------------------- MODULE AlertProofs -----------------------------
(***************************************************************************)
(* What becomes of an error and who is told: the alerts and their outbox,  *)
(* AlertEdges and NotifyOutbox; the dispatcher and the emitter of issues;  *)
(* the life of an issue and its merges; spike protection and the spike     *)
(* detector.  NotifyInv is about the drain and its table and speaks of no  *)
(* incident; AlertInv says how the intents of an incident follow its edges;*)
(* each of the others is a strengthening of what its part promises, one    *)
(* lemma for each of its actions, and its theorem.                         *)
(***************************************************************************)
EXTENDS AlertEdges, IssueDispatch, IssueEmitter, IssueLifecycle, IssueMerges,
        SpikeGuard, SpikeDetector, FiniteSetTheorems, SequenceTheorems,
        WellFoundedInduction, TLAPS

NoteStates == {"none", "due", "later", "dead", "delivered", "suppressed"}
Phases == {"idle", "draining", "posting", "answered", "refused"}

\* A pending row has attempts left, and one that waits has made one.
NotesOK ==
  /\ note \in [Delivery -> [state : NoteStates, attempts : 0..NotifyBudget, version : Nat]]
  /\ \A d \in Delivery : NotePending(d) => note[d].attempts < NotifyBudget
  /\ \A d \in Delivery : note[d].state = "later" => note[d].attempts > 0
  /\ before \subseteq Noted \X Noted
  /\ \A d, e \in Noted : <<d, e>> \in before => <<e, d>> \notin before

\* What a pass holds is pending, and one row of it is out at a time.
DrainOK ==
  /\ drain \in [phase : Phases, batch : SUBSET Delivery, row : Delivery \cup {NoRow},
                windows : BOOLEAN]
  /\ drain.phase \in {"posting", "answered", "refused"} <=> drain.row # NoRow
  /\ drain.row \notin drain.batch
  /\ \A d \in Delivery : d \in drain.batch \cup {drain.row} => NotePending(d)

\* A pass holds no intent without every older one that was never tried, and
\* posts it after them.
DrainInOrder ==
  \A d, e \in Delivery :
    <<d, e>> \in before /\ NotePending(d) /\ note[d].attempts = 0
      => /\ e \in drain.batch => d \in drain.batch \cup {drain.row}
         /\ e # drain.row

Faults == markFaults + notifyCrashes + notifyCuts
Owed(d) == note[d].attempts + Faults

CountsOK ==
  /\ notifier \in {"up", "stopping", "down"}
  /\ answered \in [Delivery -> Nat]
  /\ markFaults \in Nat /\ notifyCrashes \in Nat /\ notifyStops \in Nat /\ notifyPrunes \in Nat
  /\ notifyCuts \in Nat

\* The answers of a pending intent are accounted for, but for the one whose
\* mark is next.
AnswersOwed ==
  \A d \in Delivery :
    /\ answered[d] =< 1 + Owed(d)
    /\ NotePending(d) /\ ~(drain.phase \in {"answered", "refused"} /\ drain.row = d)
         => answered[d] =< Owed(d)
    /\ note[d].state = "none" => answered[d] = 0

\* A stop has the one request that is out to cut.
CutsOK ==
  /\ notifyCuts =< notifyStops
  /\ NotifyCancelled /\ drain.phase \in {"posting", "refused"} => notifyCuts < notifyStops

NotifyInv == NotesOK /\ DrainOK /\ DrainInOrder /\ CountsOK /\ AnswersOwed /\ CutsOK

LEMMA OwedNat ==
  ASSUME NotesOK, CountsOK, NEW d \in Delivery
  PROVE  /\ note[d].attempts \in Nat /\ Faults \in Nat /\ answered[d] \in Nat
         /\ Owed(d) = note[d].attempts + Faults
  BY NotifyAssumption DEF NotesOK, CountsOK, Faults, Owed

\* What a step of the drain leaves of the table.
NoneAppears == \A d \in Delivery : note[d].state = "none" => note'[d].state = "none"
OrderStays == \A d, e \in Noted' : <<d, e>> \in before => <<d, e>> \in before'
SettledStays ==
  \A d \in Delivery : NoteSettled(d) =>
    note'[d].state = note[d].state \/ (note[d].state # "dead" /\ note'[d] = NoNote)

-----------------------------------------------------------------------------
(* The rows.                                                               *)

\* The row that is written is the one read from now on: its version is higher.
LEMMA PutNoteIs ==
  ASSUME NotesOK, NEW d \in Delivery, NEW st, NEW n, PutNote(d, st, n)
  PROVE  /\ \E v \in Nat :
              note' = [note EXCEPT ![d] = [state |-> st, attempts |-> n, version |-> v]]
         /\ before' = before
<1>1. PICK now \in NotifyNow :
        \E row \in Collapsed(note[d], [state |-> st, attempts |-> n,
                                       version |-> NotifyNextVersion(note[d].version, now)]) :
          note' = [note EXCEPT ![d] = row]
  BY DEF PutNote
<1> DEFINE v == NotifyNextVersion(note[d].version, now)
           new == [state |-> st, attempts |-> n, version |-> v]
<1>2. note[d].version \in Nat /\ now \in Nat
  BY NotifyAssumption DEF NotesOK
<1>3. v \in Nat /\ v > note[d].version
  BY <1>2 DEF NotifyNextVersion
<1> HIDE DEF v
<1>4. Collapsed(note[d], new) = {new}
  BY <1>3, <1>2 DEF Collapsed
<1>5. note' = [note EXCEPT ![d] = new]
  BY <1>1, <1>4 DEF v
<1> QED BY <1>3, <1>5 DEF PutNote

\* A pending row is marked and the others stay.
LEMMA PutNoteKeeps ==
  ASSUME NotesOK, NEW d \in Delivery, NotePending(d),
         NEW st \in {"later", "dead", "delivered", "suppressed"}, NEW n \in 0..NotifyBudget,
         st = "later" => 0 < n /\ n < NotifyBudget,
         PutNote(d, st, n)
  PROVE  /\ NotesOK'
         /\ note'[d].state = st /\ note'[d].attempts = n
         /\ \A e \in Delivery \ {d} : note'[e] = note[e]
         /\ before' = before
<1>1. PICK v \in Nat :
        note' = [note EXCEPT ![d] = [state |-> st, attempts |-> n, version |-> v]]
  BY PutNoteIs
<1>2. before' = before
  BY PutNoteIs
<1>3. /\ note'[d] = [state |-> st, attempts |-> n, version |-> v]
      /\ \A e \in Delivery \ {d} : note'[e] = note[e]
  BY <1>1 DEF NotesOK
<1>4. note' \in [Delivery -> [state : NoteStates, attempts : 0..NotifyBudget, version : Nat]]
  BY <1>1 DEF NotesOK, NoteStates
<1>5. Noted' = Noted
  BY <1>3 DEF Noted, NotePending
<1>6. \A e \in Delivery : NotePending(e)' => note'[e].attempts < NotifyBudget
  BY <1>3 DEF NotesOK, NotePending
<1>7. \A e \in Delivery : note'[e].state = "later" => note'[e].attempts > 0
  BY <1>3 DEF NotesOK
<1> QED BY <1>2, <1>3, <1>4, <1>5, <1>6, <1>7 DEF NotesOK

\* A failed attempt leaves the row one attempt further.
LEMMA PutAttemptIs ==
  ASSUME NotesOK, drain.row \in Delivery, NotePending(drain.row), PutAttempt
  PROVE  \E st \in {"later", "dead"}, n \in 1..NotifyBudget :
           /\ n = note[drain.row].attempts + 1 /\ (st = "later" => n < NotifyBudget)
           /\ PutNote(drain.row, st, n)
<1> DEFINE n == note[drain.row].attempts + 1
           st == IF n >= NotifyBudget THEN "dead" ELSE "later"
<1>1. note[drain.row].attempts \in Nat /\ note[drain.row].attempts < NotifyBudget
      /\ NotifyBudget \in Nat
  BY NotifyAssumption DEF NotesOK
<1>2. n \in 1..NotifyBudget /\ st \in {"later", "dead"} /\ (st = "later" => n < NotifyBudget)
  BY <1>1
<1>3. PutNote(drain.row, st, n)
  BY DEF PutAttempt
<1> QED BY <1>2, <1>3

-----------------------------------------------------------------------------
(* What the transactions of the alerts do to the outbox.                   *)

LEMMA EnqueueKeeps ==
  ASSUME NotifyInv, NEW S \in SUBSET Delivery, \A d \in S : note[d].state = "none",
         Enqueue(S), UNCHANGED <<answered, notifier, drain, noteCounters>>
  PROVE  /\ NotifyInv'
         /\ \A d \in Delivery \ S : note'[d] = note[d]
         /\ \A d \in S : note'[d].state = "due"
         /\ before' = before \cup (Noted \X S)
<1> USE DEF NotifyInv
<1>1. PICK now \in NotifyNow :
        note' = [d \in Delivery |-> IF d \in S
                                    THEN [state |-> "due", attempts |-> 0, version |-> now]
                                    ELSE note[d]]
  BY DEF Enqueue
<1>2. before' = before \cup (Noted \X S)
  BY DEF Enqueue
<1>3. now \in Nat /\ 0 < NotifyBudget /\ NotifyBudget \in Nat
  BY NotifyAssumption
<1>4. /\ \A d \in S : note'[d] = [state |-> "due", attempts |-> 0, version |-> now]
      /\ \A d \in Delivery \ S : note'[d] = note[d]
  BY <1>1
<1>5. note' \in [Delivery -> [state : NoteStates, attempts : 0..NotifyBudget, version : Nat]]
  BY <1>1, <1>3 DEF NotesOK, NoteStates
<1>6. Noted' = Noted \cup S /\ Noted \cap S = {}
  BY <1>4 DEF Noted
<1>7. NotesOK'
  <2>1. before' \subseteq Noted' \X Noted'
    BY <1>2, <1>6 DEF NotesOK
  <2>2. ASSUME NEW d \in Noted', NEW e \in Noted', <<d, e>> \in before' PROVE <<e, d>> \notin before'
    BY <2>2, <1>2, <1>6 DEF NotesOK
  <2>3. \A d \in Delivery : NotePending(d)' => note'[d].attempts < NotifyBudget
    BY <1>3, <1>4 DEF NotesOK, NotePending
  <2>4. \A d \in Delivery : note'[d].state = "later" => note'[d].attempts > 0
    BY <1>4 DEF NotesOK
  <2> QED BY <1>5, <2>1, <2>2, <2>3, <2>4 DEF NotesOK
<1>8. \A d \in Delivery : d \in drain.batch \cup {drain.row} => d \notin S
  BY DEF DrainOK, NotePending
<1>9. DrainOK'
  BY <1>4, <1>8 DEF DrainOK, NotePending
<1>10. DrainInOrder'
  BY <1>2, <1>4, <1>6, <1>8 DEF DrainInOrder, NotesOK, NotePending, DrainOK
<1>11. CountsOK' /\ CutsOK' /\ Faults' = Faults
  BY DEF CountsOK, CutsOK, Faults, noteCounters, NotifyCancelled
<1>12. ASSUME NEW d \in Delivery
       PROVE  /\ answered[d] =< 1 + Owed(d)'
              /\ NotePending(d)' /\ ~(drain.phase \in {"answered", "refused"} /\ drain.row = d)
                   => answered[d] =< Owed(d)'
              /\ note'[d].state = "none" => answered[d] = 0
  <2>1. CASE d \in S
    <3>1. answered[d] = 0
      BY <2>1 DEF AnswersOwed
    <3>2. note'[d].attempts = 0 /\ note'[d].state = "due" /\ Faults \in Nat
      BY <1>4, <2>1, OwedNat
    <3>3. Owed(d)' = Faults
      BY <1>11, <3>2 DEF Owed
    <3> QED BY <3>1, <3>2, <3>3
  <2>2. CASE d \notin S
    <3>1. note'[d] = note[d] /\ Owed(d)' = Owed(d) /\ NotePending(d)' = NotePending(d)
      BY <1>4, <1>11, <2>2 DEF Owed, NotePending
    <3> QED BY <3>1 DEF AnswersOwed
  <2> QED BY <2>1, <2>2
<1>13. AnswersOwed'
  BY <1>12 DEF AnswersOwed
<1> QED BY <1>2, <1>4, <1>7, <1>9, <1>10, <1>11, <1>13

LEMMA OutboxSame ==
  ASSUME NotifyInv, UNCHANGED notifyVars
  PROVE  NotifyInv'
  BY DEF NotifyInv, NotesOK, DrainOK, DrainInOrder, CountsOK, AnswersOwed, Owed, Faults, CutsOK,
         NotifyCancelled, notifyVars, noteTable, noteCounters, NotePending, Noted

-----------------------------------------------------------------------------
(* The steps of the drain.                                                 *)

TableStays == NoneAppears /\ OrderStays /\ SettledStays

\* The table is as it was.
LEMMA UntouchedTable ==
  ASSUME NotesOK, UNCHANGED noteTable
  PROVE  NotesOK' /\ TableStays
  BY DEF NotesOK, TableStays, NoneAppears, OrderStays, SettledStays, noteTable, NotePending,
         Noted, NoteSettled

\* The row d of the pass is marked: it leaves the pass, or the pass is over.
LEMMA MarkKeeps ==
  ASSUME NotifyInv, NEW d \in drain.batch \cup {drain.row}, d \in Delivery,
         NEW st \in {"later", "dead", "delivered", "suppressed"}, NEW n \in 0..NotifyBudget,
         st = "later" => 0 < n /\ n < NotifyBudget,
         PutNote(d, st, n),
         \/ PassOver
         \/ drain.row = NoRow /\ drain' = [drain EXCEPT !.batch = @ \ {d}]
         \/ drain.row = d /\ NextRow
  PROVE  /\ NotesOK' /\ DrainOK' /\ DrainInOrder' /\ TableStays
         /\ ~NotePending(d)' \/ (note'[d].attempts > 0 /\ NotePending(d))
         /\ note'[d].attempts = n
         /\ note'[d].state # "none" /\ \A e \in Delivery \ {d} : note'[e] = note[e]
<1> USE DEF NotifyInv
<1>1. NotePending(d)
  BY DEF DrainOK
<1>2. /\ NotesOK' /\ note'[d].state = st /\ note'[d].attempts = n /\ before' = before
      /\ \A e \in Delivery \ {d} : note'[e] = note[e]
  BY <1>1, PutNoteKeeps
<1>3. TableStays
  BY <1>1, <1>2 DEF TableStays, NoneAppears, OrderStays, SettledStays, NotePending, NoteSettled
<1>4. CASE PassOver
  <2>1. drain' = NoPass
    BY <1>4 DEF PassOver
  <2>2. DrainOK'
    BY <2>1, NotifyAssumption DEF DrainOK, NoPass, Phases
  <2>3. DrainInOrder'
    BY <2>1, NotifyAssumption DEF DrainInOrder, NoPass
  <2> QED BY <1>1, <1>2, <1>3, <2>2, <2>3 DEF NotePending
<1>5. CASE drain.row = NoRow /\ drain' = [drain EXCEPT !.batch = @ \ {d}]
  <2>1. DrainOK'
    BY <1>2, <1>5, NotifyAssumption DEF DrainOK, NotePending
  <2>2. DrainInOrder'
    BY <1>2, <1>5, NotifyAssumption DEF DrainInOrder, NotePending, DrainOK
  <2> QED BY <1>1, <1>2, <1>3, <2>1, <2>2 DEF NotePending
<1>6. CASE drain.row = d /\ NextRow
  <2>1. drain' = [drain EXCEPT !.phase = "draining", !.row = NoRow]
    BY <1>6 DEF NextRow
  <2>2. DrainOK'
    BY <1>2, <1>6, <2>1, NotifyAssumption DEF DrainOK, NotePending, Phases
  <2>3. DrainInOrder'
    BY <1>2, <1>6, <2>1, NotifyAssumption DEF DrainInOrder, NotePending, DrainOK
  <2> QED BY <1>1, <1>2, <1>3, <2>2, <2>3 DEF NotePending
<1> QED BY <1>4, <1>5, <1>6

\* What is owed for the row d that is marked: its answer may have come.
LEMMA MarkOwed ==
  ASSUME NotifyInv, NotesOK', CountsOK', NEW d \in Delivery,
         answered' = answered, note'[d].state # "none",
         ~NotePending(d)' \/ Owed(d)' > Owed(d), Owed(d)' >= Owed(d),
         \A e \in Delivery \ {d} : note'[e] = note[e], Faults' >= Faults,
         \A e \in Delivery \ {d} : e # drain.row
  PROVE  AnswersOwed'
<1> USE DEF NotifyInv
<1> SUFFICES ASSUME NEW e \in Delivery
             PROVE  /\ answered[e] =< 1 + Owed(e)'
                    /\ NotePending(e)' => answered[e] =< Owed(e)'
                    /\ note'[e].state = "none" => answered[e] = 0
  BY DEF AnswersOwed
<1>1. /\ note[e].attempts \in Nat /\ Faults \in Nat /\ answered[e] \in Nat
      /\ Owed(e) = note[e].attempts + Faults
  BY OwedNat
<1>2. /\ note'[e].attempts \in Nat /\ Faults' \in Nat
      /\ Owed(e)' = note'[e].attempts + Faults'
  <2>1. note'[e].attempts \in Nat
    BY NotifyAssumption DEF NotesOK
  <2>2. Faults' \in Nat
    BY DEF CountsOK, Faults
  <2> QED BY <2>1, <2>2 DEF Owed
<1>3. answered[e] =< 1 + Owed(e)
  BY DEF AnswersOwed
<1>4. CASE e = d
  BY <1>1, <1>2, <1>3, <1>4
<1>5. CASE e # d
  <2>1. note'[e] = note[e] /\ e # drain.row /\ NotePending(e)' = NotePending(e)
    BY <1>5 DEF NotePending
  <2>2. Owed(e)' >= Owed(e)
    BY <1>1, <1>2, <2>1
  <2>3. /\ NotePending(e) => answered[e] =< Owed(e)
        /\ note[e].state = "none" => answered[e] = 0
    BY <2>1 DEF AnswersOwed
  <2> QED BY <1>1, <1>2, <1>3, <2>1, <2>2, <2>3
<1> QED BY <1>4, <1>5

-----------------------------------------------------------------------------
(* The steps of the drain, one by one.                                     *)

LEMMA DrainDueKeeps ==
  ASSUME NotifyInv, DrainDue
  PROVE  NotifyInv' /\ TableStays
<1> USE DEF NotifyInv
<1>1. /\ drain.phase = "idle" /\ UNCHANGED <<noteTable, answered, notifier, noteCounters>>
  BY DEF DrainDue
<1>2. PICK windows \in BOOLEAN :
        drain' = [phase |-> "draining", batch |-> DueRows, row |-> NoRow, windows |-> windows]
  BY DEF DrainDue
<1>3. NotesOK' /\ TableStays
  BY <1>1, UntouchedTable
<1>4. DrainOK'
  BY <1>1, <1>2, NotifyAssumption DEF DrainOK, Phases, DueRows, NoteDue, NotePending, noteTable
<1>5. \A d \in Delivery : NotePending(d) /\ note[d].attempts = 0 => d \in DueRows
  BY NotifyAssumption DEF NotePending, DueRows, NoteDue, NotesOK
<1>6. DrainInOrder'
  BY <1>1, <1>2, <1>5, NotifyAssumption DEF DrainInOrder, NotePending, noteTable
<1>7. CountsOK' /\ AnswersOwed' /\ CutsOK'
  <2>1. CountsOK' /\ CutsOK'
    BY <1>1, <1>2 DEF CountsOK, CutsOK, noteCounters, NotifyCancelled, NoPass
  <2>2. \A d \in Delivery : Owed(d)' = Owed(d) /\ NotePending(d)' = NotePending(d)
    BY <1>1 DEF Owed, Faults, noteTable, noteCounters, NotePending
  <2> QED BY <1>1, <1>2, <2>1, <2>2 DEF AnswersOwed, noteTable
<1> QED BY <1>3, <1>4, <1>6, <1>7

LEMMA DrainEndsKeeps ==
  ASSUME NotifyInv, DrainEnds
  PROVE  NotifyInv' /\ TableStays
<1> USE DEF NotifyInv
<1>1. drain.phase = "draining" /\ drain' = NoPass
      /\ UNCHANGED <<noteTable, answered, notifier, noteCounters>>
  BY DEF DrainEnds, PassOver
<1>2. NotesOK' /\ TableStays
  BY <1>1, UntouchedTable
<1>3. DrainOK' /\ DrainInOrder'
  BY <1>1, NotifyAssumption DEF DrainOK, DrainInOrder, NoPass, Phases
<1>4. CountsOK' /\ AnswersOwed' /\ CutsOK'
  <2>1. CountsOK' /\ CutsOK'
    BY <1>1 DEF CountsOK, CutsOK, noteCounters, NotifyCancelled, NoPass
  <2>2. \A d \in Delivery : Owed(d)' = Owed(d) /\ NotePending(d)' = NotePending(d)
    BY <1>1 DEF Owed, Faults, noteTable, noteCounters, NotePending
  <2> QED BY <1>1, <2>1, <2>2 DEF AnswersOwed, noteTable
<1> QED BY <1>2, <1>3, <1>4

LEMMA PostKeeps ==
  ASSUME NotifyInv, Post
  PROVE  NotifyInv' /\ TableStays
<1> USE DEF NotifyInv
<1>1. drain.phase = "draining" /\ UNCHANGED <<noteTable, answered, notifier, noteCounters>>
  BY DEF Post, AtRow
<1>2. PICK d \in drain.batch :
        UpNext(d) /\ drain' = [drain EXCEPT !.phase = "posting", !.batch = @ \ {d}, !.row = d]
  BY DEF Post
<1>3. drain.row = NoRow /\ d \in Delivery /\ NotePending(d)
  BY <1>1 DEF DrainOK
<1>4. NotesOK' /\ TableStays
  BY <1>1, UntouchedTable
<1>5. DrainOK'
  BY <1>1, <1>2, <1>3, NotifyAssumption DEF DrainOK, Phases, NotePending, noteTable
<1>6. DrainInOrder'
  BY <1>1, <1>2, <1>3, NotifyAssumption DEF DrainInOrder, DrainOK, UpNext, NotePending, noteTable
<1>7. CountsOK' /\ AnswersOwed' /\ CutsOK'
  <2>1. CountsOK' /\ CutsOK'
    BY <1>1, <1>2 DEF CountsOK, CutsOK, noteCounters, NotifyCancelled, NoPass, AtRow, Post
  <2>2. \A e \in Delivery : Owed(e)' = Owed(e) /\ NotePending(e)' = NotePending(e)
    BY <1>1 DEF Owed, Faults, noteTable, noteCounters, NotePending
  <2> QED BY <1>1, <1>2, <2>1, <2>2 DEF AnswersOwed, noteTable, DrainOK
<1> QED BY <1>4, <1>5, <1>6, <1>7

\* What is owed once the request for the row of the pass has come to an end:
\* its target may have answered.
LEMMA PostedOwed ==
  ASSUME NotifyInv, UNCHANGED noteTable, drain.phase = "posting", drain.row \in Delivery,
         NotePending(drain.row), CountsOK',
         answered' \in {answered, [answered EXCEPT ![drain.row] = @ + 1]},
         \/ Faults' = Faults /\ drain'.row = drain.row /\ drain'.phase \in {"answered", "refused"}
         \/ Faults' = Faults + 1
  PROVE  AnswersOwed'
<1> USE DEF NotifyInv
<1> SUFFICES ASSUME NEW d \in Delivery
             PROVE  /\ answered'[d] =< 1 + Owed(d)'
                    /\ NotePending(d)
                         /\ ~(drain'.phase \in {"answered", "refused"} /\ drain'.row = d)
                         => answered'[d] =< Owed(d)'
                    /\ note[d].state = "none" => answered'[d] = 0
  BY DEF AnswersOwed, noteTable, NotePending
<1>1. /\ note[d].attempts \in Nat /\ Faults \in Nat /\ answered[d] \in Nat
      /\ Owed(d) = note[d].attempts + Faults /\ Owed(d)' = note[d].attempts + Faults'
  BY OwedNat DEF Owed, noteTable
<1>2. /\ answered[d] =< 1 + Owed(d)
      /\ NotePending(d) => answered[d] =< Owed(d)
      /\ note[d].state = "none" => answered[d] = 0
  BY DEF AnswersOwed
<1>3. /\ d # drain.row => answered'[d] = answered[d]
      /\ answered'[d] \in {answered[d], answered[d] + 1}
  BY DEF CountsOK
<1>4. CASE d = drain.row
  <2>1. answered[d] =< Owed(d) /\ note[d].state # "none"
    BY <1>2, <1>4 DEF NotePending
  <2>2. answered'[d] =< 1 + Owed(d)
    BY <1>1, <1>3, <2>1
  <2>3. CASE Faults' = Faults + 1
    <3>1. answered'[d] =< Owed(d)' /\ answered'[d] =< 1 + Owed(d)'
      BY <1>1, <1>3, <2>2, <2>3
    <3> QED BY <2>1, <3>1
  <2>4. CASE Faults' = Faults /\ drain'.row = drain.row /\ drain'.phase \in {"answered", "refused"}
    <3>1. Owed(d)' = Owed(d)
      BY <1>1, <2>4
    <3> QED BY <1>4, <2>1, <2>2, <2>4, <3>1
  <2> QED BY <2>3, <2>4
<1>5. CASE d # drain.row
  <2>1. answered'[d] = answered[d] /\ Owed(d)' >= Owed(d)
    BY <1>1, <1>3, <1>5
  <2> QED BY <1>1, <1>2, <2>1
<1> QED BY <1>4, <1>5

LEMMA PostAnsweredKeeps ==
  ASSUME NotifyInv, PostAnswered
  PROVE  NotifyInv' /\ TableStays
<1> USE DEF NotifyInv
<1>1. /\ drain.phase = "posting" /\ answered' = [answered EXCEPT ![drain.row] = @ + 1]
      /\ drain' = [drain EXCEPT !.phase = "answered"]
      /\ UNCHANGED <<noteTable, notifier, noteCounters>>
  BY DEF PostAnswered
<1>2. drain.row \in Delivery /\ NotePending(drain.row)
  BY <1>1 DEF DrainOK
<1>3. NotesOK' /\ TableStays
  BY <1>1, UntouchedTable
<1>4. DrainOK' /\ DrainInOrder'
  BY <1>1 DEF DrainOK, DrainInOrder, Phases, noteTable, NotePending
<1>5. CountsOK' /\ CutsOK'
  BY <1>1, <1>2 DEF CountsOK, CutsOK, noteCounters, NotifyCancelled
<1>6. AnswersOwed'
  <2>1. Faults' = Faults
    BY <1>1 DEF noteCounters, Faults
  <2>2. drain'.row = drain.row /\ drain'.phase \in {"answered", "refused"}
    BY <1>1 DEF DrainOK
  <2> QED BY <1>1, <1>2, <1>5, <2>1, <2>2, PostedOwed
<1> QED BY <1>3, <1>4, <1>5, <1>6

LEMMA PostFailsKeeps ==
  ASSUME NotifyInv, PostFails
  PROVE  NotifyInv' /\ TableStays
<1> USE DEF NotifyInv
<1>1. /\ drain.phase = "posting"
      /\ answered' \in {answered, [answered EXCEPT ![drain.row] = @ + 1]}
      /\ UNCHANGED <<noteTable, notifier, markFaults, notifyCrashes, notifyStops, notifyPrunes>>
      /\ \/ NotifyCancelled /\ drain' = NoPass /\ notifyCuts' = notifyCuts + 1
         \/ ~NotifyCancelled /\ drain' = [drain EXCEPT !.phase = "refused"]
            /\ notifyCuts' = notifyCuts
  BY DEF PostFails, PassOver
<1>2. NotesOK' /\ TableStays
  BY <1>1, UntouchedTable
<1>3. DrainOK' /\ DrainInOrder'
  <2>1. CASE drain' = NoPass
    BY <2>1, NotifyAssumption DEF DrainOK, DrainInOrder, Phases, NoPass
  <2>2. CASE drain' = [drain EXCEPT !.phase = "refused"]
    BY <1>1, <2>2 DEF DrainOK, DrainInOrder, Phases, noteTable, NotePending
  <2> QED BY <1>1, <2>1, <2>2
<1>4. drain.row \in Delivery /\ NotePending(drain.row)
  BY <1>1 DEF DrainOK
<1>5. CountsOK'
  BY <1>1, <1>4 DEF CountsOK
<1>6. CutsOK'
  BY <1>1 DEF CutsOK, CountsOK, NotifyCancelled, NoPass
<1>7. AnswersOwed'
  <2>1. \/ Faults' = Faults /\ drain' = [drain EXCEPT !.phase = "refused"]
        \/ Faults' = Faults + 1
    BY <1>1 DEF Faults, CountsOK
  <2>2. \/ Faults' = Faults /\ drain'.row = drain.row /\ drain'.phase \in {"answered", "refused"}
        \/ Faults' = Faults + 1
    BY <2>1 DEF DrainOK
  <2> QED BY <1>1, <1>4, <1>5, <2>2, PostedOwed
<1> QED BY <1>2, <1>3, <1>5, <1>6, <1>7

LEMMA MarkSuppressedKeeps ==
  ASSUME NotifyInv, MarkSuppressed
  PROVE  NotifyInv' /\ TableStays
<1> USE DEF NotifyInv
<1>1. drain.phase = "draining" /\ UNCHANGED <<answered, notifier, noteCounters>>
  BY DEF MarkSuppressed, AtRow
<1>2. PICK d \in drain.batch : /\ PutNote(d, "suppressed", note[d].attempts)
                               /\ drain' = [drain EXCEPT !.batch = @ \ {d}]
  BY DEF MarkSuppressed
<1>3. drain.row = NoRow /\ d \in Delivery /\ note[d].attempts \in 0..NotifyBudget
  BY <1>1 DEF DrainOK, NotesOK
<1>4. /\ NotesOK' /\ DrainOK' /\ DrainInOrder' /\ TableStays
      /\ note'[d].attempts = note[d].attempts /\ note'[d].state # "none"
      /\ \A e \in Delivery \ {d} : note'[e] = note[e]
  BY <1>2, <1>3, MarkKeeps
<1>5. note'[d].state = "suppressed"
  BY <1>2, <1>3, PutNoteKeeps DEF DrainOK
<1>6. CountsOK' /\ CutsOK' /\ Faults' = Faults
  BY <1>1, <1>2 DEF CountsOK, CutsOK, noteCounters, NotifyCancelled, Faults, DrainOK
<1>7. AnswersOwed'
  <2>1. /\ ~NotePending(d)' /\ Owed(d)' = Owed(d) /\ Owed(d) \in Int
        /\ \A e \in Delivery : e # drain.row
    BY <1>3, <1>4, <1>5, <1>6, NotifyAssumption, OwedNat DEF NotePending, Owed
  <2> QED BY <1>1, <1>3, <1>4, <1>6, <2>1, OwedNat, MarkOwed
<1> QED BY <1>4, <1>6, <1>7

LEMMA MarkDeliveredKeeps ==
  ASSUME NotifyInv, MarkDelivered
  PROVE  NotifyInv' /\ TableStays
<1> USE DEF NotifyInv
<1>1. /\ drain.phase = "answered" /\ PutNote(drain.row, "delivered", note[drain.row].attempts)
      /\ NextRow /\ UNCHANGED <<answered, notifier, noteCounters>>
  BY DEF MarkDelivered
<1>2. drain.row \in Delivery /\ note[drain.row].attempts \in 0..NotifyBudget
      /\ NotePending(drain.row)
  BY <1>1 DEF DrainOK, NotesOK
<1>3. /\ NotesOK' /\ DrainOK' /\ DrainInOrder' /\ TableStays
      /\ note'[drain.row].attempts = note[drain.row].attempts
      /\ \A e \in Delivery \ {drain.row} : note'[e] = note[e]
  BY <1>1, <1>2, MarkKeeps
<1>4. note'[drain.row].state = "delivered"
  BY <1>1, <1>2, PutNoteKeeps
<1>5. CountsOK' /\ CutsOK' /\ Faults' = Faults
  BY <1>1 DEF CountsOK, CutsOK, noteCounters, NotifyCancelled, Faults, DrainOK, NextRow
<1>6. AnswersOwed'
  <2>1. PICK d \in Delivery : d = drain.row
    BY <1>2
  <2>2. /\ ~NotePending(d)' /\ Owed(d)' = Owed(d) /\ note'[d].state # "none"
    BY <1>3, <1>4, <1>5, <2>1 DEF NotePending, Owed
  <2>3. Owed(d) \in Int /\ Faults' >= Faults
    BY <1>5, OwedNat
  <2>4. Owed(d)' >= Owed(d)
    BY <2>2, <2>3
  <2> QED BY <1>1, <1>3, <1>5, <2>1, <2>2, <2>3, <2>4, MarkOwed
<1> QED BY <1>3, <1>5, <1>6

LEMMA MarkAttemptKeeps ==
  ASSUME NotifyInv, MarkAttempt
  PROVE  NotifyInv' /\ TableStays
<1> USE DEF NotifyInv
<1>1. /\ drain.phase = "refused" /\ PutAttempt
      /\ NextRow /\ UNCHANGED <<answered, notifier, noteCounters>>
  BY DEF MarkAttempt
<1>2. drain.row \in Delivery /\ NotePending(drain.row)
  BY <1>1 DEF DrainOK
<1>3. PICK st \in {"later", "dead"}, n \in 1..NotifyBudget :
        /\ n = note[drain.row].attempts + 1 /\ (st = "later" => n < NotifyBudget)
        /\ PutNote(drain.row, st, n)
  BY <1>1, <1>2, PutAttemptIs
<1>4. n \in 0..NotifyBudget /\ 0 < n
  BY NotifyAssumption
<1>5. /\ NotesOK' /\ DrainOK' /\ DrainInOrder' /\ TableStays
      /\ note'[drain.row].state # "none" /\ note'[drain.row].attempts = n
      /\ \A e \in Delivery \ {drain.row} : note'[e] = note[e]
  BY <1>1, <1>2, <1>3, <1>4, MarkKeeps
<1>6. CountsOK' /\ CutsOK' /\ Faults' = Faults
  BY <1>1 DEF CountsOK, CutsOK, noteCounters, NotifyCancelled, Faults, DrainOK, NextRow
<1>7. AnswersOwed'
  <2>1. PICK d \in Delivery : d = drain.row
    BY <1>2
  <2>2. /\ note[d].attempts \in Nat /\ Faults \in Nat
        /\ Owed(d) = note[d].attempts + Faults
    BY OwedNat
  <2>3. note'[d].attempts = n /\ n = note[d].attempts + 1 /\ note'[d].state # "none"
    BY <1>3, <1>5, <2>1
  <2>4. Owed(d)' = n + Faults
    BY <1>6, <2>3 DEF Owed
  <2>5. Owed(d)' > Owed(d) /\ Owed(d)' >= Owed(d) /\ Faults' >= Faults
    BY <1>6, <2>2, <2>3, <2>4
  <2> QED BY <1>1, <1>5, <1>6, <2>1, <2>3, <2>5, MarkOwed
<1> QED BY <1>5, <1>6, <1>7

\* A disposition that fails may be there all the same; either way the pass is
\* over, and what was answered is paid for by the fault.
LEMMA MarkFailsKeeps ==
  ASSUME NotifyInv, MarkFails
  PROVE  NotifyInv' /\ TableStays
<1> USE DEF NotifyInv
<1>1. /\ drain' = NoPass /\ PassOver
      /\ UNCHANGED <<answered, notifier, notifyCrashes, notifyStops, notifyPrunes>>
  BY DEF MarkFails, PassOver
<1>2. \/ markFaults' = markFaults + 1 /\ notifyCuts' = notifyCuts
      \/ /\ drain.phase = "refused" /\ NotifyCancelled
         /\ markFaults' = markFaults /\ notifyCuts' = notifyCuts + 1
  BY DEF MarkFails, MarkContext
<1>3. \/ UNCHANGED noteTable
      \/ \E d \in drain.batch \cup {drain.row}, st \in {"later", "dead", "delivered", "suppressed"},
            n \in 0..NotifyBudget :
           /\ d \in Delivery /\ n >= note[d].attempts
           /\ (st = "later" => 0 < n /\ n < NotifyBudget) /\ PutNote(d, st, n)
  <2>1. CASE AtRow /\ drain.windows
             /\ \E d \in drain.batch : UpNext(d) /\ PutNote(d, "suppressed", note[d].attempts)
    <3>1. PICK d \in drain.batch : PutNote(d, "suppressed", note[d].attempts)
      BY <2>1
    <3>2. /\ d \in Delivery /\ note[d].attempts \in 0..NotifyBudget
          /\ note[d].attempts >= note[d].attempts
      BY NotifyAssumption DEF DrainOK, NotesOK
    <3> QED BY <3>1, <3>2
  <2>2. CASE drain.phase = "answered" /\ PutNote(drain.row, "delivered", note[drain.row].attempts)
    <3>1. /\ drain.row \in Delivery /\ note[drain.row].attempts \in 0..NotifyBudget
          /\ note[drain.row].attempts >= note[drain.row].attempts
      BY <2>2, NotifyAssumption DEF DrainOK, NotesOK
    <3> QED BY <2>2, <3>1
  <2>3. CASE drain.phase = "refused" /\ PutAttempt
    <3>1. drain.row \in Delivery /\ NotePending(drain.row)
      BY <2>3 DEF DrainOK
    <3>2. PICK st \in {"later", "dead"}, n \in 1..NotifyBudget :
            /\ n = note[drain.row].attempts + 1 /\ (st = "later" => n < NotifyBudget)
            /\ PutNote(drain.row, st, n)
      BY <2>3, <3>1, PutAttemptIs
    <3>3. n \in 0..NotifyBudget /\ 0 < n /\ n >= note[drain.row].attempts
      BY <3>1, <3>2, NotifyAssumption DEF NotesOK
    <3> QED BY <3>1, <3>2, <3>3
  <2> QED BY <2>1, <2>2, <2>3 DEF MarkFails
<1>4. /\ NotesOK' /\ DrainOK' /\ DrainInOrder' /\ TableStays
      /\ \A d \in Delivery : /\ NotePending(d)' => NotePending(d)
                             /\ note'[d].state = "none" => note[d].state = "none"
                             /\ note'[d].attempts >= note[d].attempts
  <2>1. CASE UNCHANGED noteTable
    <3>1. NotesOK' /\ TableStays
      BY <2>1, UntouchedTable
    <3>2. DrainOK' /\ DrainInOrder'
      BY <1>1, NotifyAssumption DEF DrainOK, DrainInOrder, NoPass, Phases
    <3>3. ASSUME NEW d \in Delivery PROVE note'[d].attempts >= note[d].attempts
      BY <2>1, OwedNat DEF noteTable
    <3> QED BY <2>1, <3>1, <3>2, <3>3 DEF noteTable, NotePending
  <2>2. ASSUME NEW d \in drain.batch \cup {drain.row},
               NEW st \in {"later", "dead", "delivered", "suppressed"}, NEW n \in 0..NotifyBudget,
               d \in Delivery, n >= note[d].attempts,
               st = "later" => 0 < n /\ n < NotifyBudget, PutNote(d, st, n)
        PROVE  <1>4!1 /\ <1>4!2
    <3>1. /\ NotesOK' /\ DrainOK' /\ DrainInOrder' /\ TableStays
          /\ ~NotePending(d)' \/ (note'[d].attempts > 0 /\ NotePending(d))
          /\ note'[d].attempts = n
          /\ note'[d].state # "none" /\ \A e \in Delivery \ {d} : note'[e] = note[e]
      BY <1>1, <2>2, MarkKeeps
    <3>2. \A e \in Delivery : note[e].attempts \in Int
      BY OwedNat
    <3> QED BY <2>2, <3>1, <3>2 DEF NotePending
  <2> QED BY <1>3, <2>1, <2>2
<1>5. CountsOK' /\ CutsOK' /\ Faults' = Faults + 1
  BY <1>1, <1>2, NotifyAssumption DEF CountsOK, CutsOK, Faults, NoPass, NotifyCancelled
<1>6. AnswersOwed'
  <2> SUFFICES ASSUME NEW d \in Delivery
               PROVE  /\ answered[d] =< 1 + Owed(d)' /\ answered[d] =< Owed(d)'
                      /\ note'[d].state = "none" => answered[d] = 0
    BY <1>1 DEF AnswersOwed
  <2>1. /\ note[d].attempts \in Nat /\ Faults \in Nat /\ answered[d] \in Nat
        /\ Owed(d) = note[d].attempts + Faults
    BY OwedNat
  <2>2. Owed(d)' = note'[d].attempts + (Faults + 1) /\ note'[d].attempts \in Nat
    BY <1>4, <1>5, NotifyAssumption DEF Owed, NotesOK
  <2>3. answered[d] =< 1 + Owed(d) /\ (note[d].state = "none" => answered[d] = 0)
    BY DEF AnswersOwed
  <2> QED BY <1>4, <2>1, <2>2, <2>3
<1> QED BY <1>4, <1>5, <1>6

LEMMA BackoffKeeps ==
  ASSUME NotifyInv, NEW d \in Delivery, NoteBackoffEnds(d)
  PROVE  NotifyInv' /\ TableStays
<1> USE DEF NotifyInv
<1>1. /\ note[d].state = "later" /\ note' = [note EXCEPT ![d].state = "due"]
      /\ UNCHANGED <<before, answered, notifier, drain, noteCounters>>
  BY DEF NoteBackoffEnds
<1>2. /\ note'[d].state = "due" /\ note'[d].attempts = note[d].attempts
      /\ \A e \in Delivery \ {d} : note'[e] = note[e]
  BY <1>1 DEF NotesOK
<1>3. note' \in [Delivery -> [state : NoteStates, attempts : 0..NotifyBudget, version : Nat]]
  BY <1>1 DEF NotesOK, NoteStates
<1>4. Noted' = Noted /\ \A e \in Delivery : NotePending(e)' = NotePending(e)
  BY <1>1, <1>2 DEF Noted, NotePending
<1>5. NotesOK'
  <2>1. \A e \in Delivery : NotePending(e)' => note'[e].attempts < NotifyBudget
    BY <1>2, <1>4 DEF NotesOK
  <2>2. \A e \in Delivery : note'[e].state = "later" => note'[e].attempts > 0
    BY <1>2 DEF NotesOK
  <2> QED BY <1>1, <1>3, <1>4, <2>1, <2>2 DEF NotesOK
<1>6. DrainOK' /\ DrainInOrder'
  BY <1>1, <1>2, <1>4 DEF DrainOK, DrainInOrder
<1>7. TableStays
  BY <1>1, <1>2 DEF TableStays, NoneAppears, OrderStays, SettledStays, NoteSettled
<1>8. CountsOK' /\ CutsOK' /\ Faults' = Faults
  BY <1>1 DEF CountsOK, CutsOK, Faults, noteCounters, NotifyCancelled
<1>9. \A e \in Delivery :
        Owed(e)' = Owed(e) /\ (note'[e].state = "none" => note[e].state = "none")
  BY <1>2, <1>8 DEF Owed
<1>10. AnswersOwed'
  BY <1>1, <1>4, <1>9 DEF AnswersOwed
<1> QED BY <1>5, <1>6, <1>7, <1>8, <1>10

LEMMA ProcessKeeps ==
  ASSUME NotifyInv, NotifyStop \/ NotifyExit \/ NotifyStart
  PROVE  NotifyInv' /\ TableStays
<1> USE DEF NotifyInv
<1>1. UNCHANGED <<noteTable, answered, markFaults, notifyPrunes, notifyCuts>>
  BY DEF NotifyStop, NotifyExit, NotifyStart, noteCounters
<1>2. NotesOK' /\ TableStays
  BY <1>1, UntouchedTable
<1>3. drain' = drain \/ drain' = NoPass
  BY DEF NotifyStop, NotifyExit, NotifyStart, PassOver
<1>4. DrainOK' /\ DrainInOrder'
  <2>1. CASE drain' = NoPass
    BY <2>1, NotifyAssumption DEF DrainOK, DrainInOrder, NoPass, Phases
  <2>2. CASE drain' = drain
    BY <1>1, <2>2 DEF DrainOK, DrainInOrder, noteTable, NotePending
  <2> QED BY <1>3, <2>1, <2>2
<1>5. /\ notifier' \in {"up", "stopping", "down"} /\ notifyStops' \in Nat
      /\ \/ notifyCrashes' = notifyCrashes + 1
         \/ notifyCrashes' = notifyCrashes /\ (drain' = drain \/ drain.phase = "idle")
  BY DEF NotifyStop, NotifyExit, NotifyStart, noteCounters, CountsOK
<1>6. CountsOK'
  BY <1>1, <1>5 DEF CountsOK
<1>7. CutsOK'
  <2>1. CASE NotifyStop
    BY <1>1, <2>1 DEF NotifyStop, CutsOK, CountsOK, NotifyCancelled
  <2>2. CASE NotifyExit
    BY <1>1, <2>2 DEF NotifyExit, CutsOK, NotifyCancelled
  <2>3. CASE NotifyStart
    BY <1>1, <2>3 DEF NotifyStart, CutsOK, NotifyCancelled, noteCounters
  <2> QED BY <2>1, <2>2, <2>3
<1>8. AnswersOwed'
  <2> SUFFICES ASSUME NEW d \in Delivery
               PROVE  /\ answered[d] =< 1 + Owed(d)'
                      /\ NotePending(d)
                           /\ ~(drain'.phase \in {"answered", "refused"} /\ drain'.row = d)
                           => answered[d] =< Owed(d)'
    BY <1>1 DEF AnswersOwed, noteTable, NotePending
  <2>1. /\ note[d].attempts \in Nat /\ Faults \in Nat /\ answered[d] \in Nat
        /\ Owed(d) = note[d].attempts + Faults
    BY OwedNat
  <2>2. \/ Faults' = Faults + 1
        \/ Faults' = Faults /\ (drain' = drain \/ drain.phase = "idle")
    BY <1>1, <1>5 DEF Faults, CountsOK
  <2>3. Owed(d)' = note[d].attempts + Faults'
    BY <1>1 DEF Owed, noteTable
  <2>4. /\ answered[d] =< 1 + Owed(d)
        /\ NotePending(d) /\ ~(drain.phase \in {"answered", "refused"} /\ drain.row = d)
             => answered[d] =< Owed(d)
    BY DEF AnswersOwed
  <2>5. CASE Faults' = Faults + 1
    BY <2>1, <2>3, <2>4, <2>5
  <2>6. CASE Faults' = Faults /\ (drain' = drain \/ drain.phase = "idle")
    <3>1. Owed(d)' = Owed(d)
      BY <2>1, <2>3, <2>6
    <3>2. NotePending(d) /\ ~(drain'.phase \in {"answered", "refused"} /\ drain'.row = d)
            => answered[d] =< Owed(d)
      BY <2>4, <2>6
    <3> QED BY <2>4, <3>1, <3>2
  <2> QED BY <2>2, <2>5, <2>6
<1> QED BY <1>2, <1>4, <1>6, <1>7, <1>8

LEMMA NotifyPruneKeeps ==
  ASSUME NotifyInv, NotifyPrune
  PROVE  NotifyInv' /\ TableStays
<1> USE DEF NotifyInv
<1>1. PICK last \in Noted :
        LET old == {d \in Noted : Disposed(d) /\ <<last, d>> \notin before}
        IN /\ old # {}
           /\ note' = [d \in Delivery |-> IF d \in old THEN NoNote ELSE note[d]]
           /\ before' = {p \in before : p[1] \notin old /\ p[2] \notin old}
           /\ answered' = [d \in Delivery |-> IF d \in old THEN 0 ELSE answered[d]]
  BY DEF NotifyPrune
<1>2. /\ notifyPrunes' = notifyPrunes + 1
      /\ UNCHANGED <<notifier, drain, markFaults, notifyCrashes, notifyStops, notifyCuts>>
  BY DEF NotifyPrune
<1> DEFINE old == {d \in Noted : Disposed(d) /\ <<last, d>> \notin before}
<1>3. /\ old \subseteq Noted /\ \A d \in old : Disposed(d)
      /\ note' = [d \in Delivery |-> IF d \in old THEN NoNote ELSE note[d]]
      /\ before' = {p \in before : p[1] \notin old /\ p[2] \notin old}
      /\ answered' = [d \in Delivery |-> IF d \in old THEN 0 ELSE answered[d]]
  BY <1>1
<1> HIDE DEF old
<1>4. /\ \A d \in Delivery \ old : note'[d] = note[d]
      /\ \A d \in old : note'[d] = NoNote /\ d \in Delivery
      /\ \A d \in old : note[d].state \in {"delivered", "suppressed"}
  BY <1>3 DEF Disposed, Noted
<1>5. note' \in [Delivery -> [state : NoteStates, attempts : 0..NotifyBudget, version : Nat]]
  BY <1>3, NotifyAssumption DEF NotesOK, NoteStates, NoNote
<1>6. Noted' = Noted \ old
  BY <1>4 DEF Noted, NoNote
<1>7. NotesOK'
  <2>1. before' \subseteq Noted' \X Noted'
    <3>1. ASSUME NEW p \in before' PROVE p \in Noted' \X Noted'
      <4>1. p \in before /\ p[1] \notin old /\ p[2] \notin old
        BY <1>3
      <4>2. p \in Noted \X Noted
        BY <4>1 DEF NotesOK
      <4> QED BY <1>6, <4>1, <4>2
    <3> QED BY <3>1
  <2>2. \A d, e \in Noted' : <<d, e>> \in before' => <<e, d>> \notin before'
    BY <1>3, <1>6 DEF NotesOK
  <2>3. \A d \in Delivery : NotePending(d)' => note'[d].attempts < NotifyBudget
    BY <1>4 DEF NotesOK, NotePending, NoNote
  <2>4. \A d \in Delivery : note'[d].state = "later" => note'[d].attempts > 0
    BY <1>4 DEF NotesOK, NoNote
  <2> QED BY <1>5, <2>1, <2>2, <2>3, <2>4 DEF NotesOK
<1>8. \A d \in Delivery : NotePending(d)' <=> NotePending(d)
  BY <1>4 DEF NotePending, NoNote
<1>9. DrainOK'
  BY <1>2, <1>8 DEF DrainOK
<1>10. DrainInOrder'
  BY <1>2, <1>3, <1>4, <1>8 DEF DrainInOrder, NotePending, NoNote
<1>11. TableStays
  <2>1. OrderStays
    BY <1>3, <1>6 DEF OrderStays
  <2> QED BY <1>4, <2>1 DEF TableStays, NoneAppears, SettledStays, NoteSettled, NoNote
<1>12. CountsOK' /\ CutsOK' /\ Faults' = Faults
  BY <1>2, <1>3 DEF CountsOK, CutsOK, Faults, NotifyCancelled
<1>13. AnswersOwed'
  <2> SUFFICES ASSUME NEW d \in Delivery
               PROVE  /\ answered'[d] =< 1 + Owed(d)'
                      /\ NotePending(d)'
                           /\ ~(drain.phase \in {"answered", "refused"} /\ drain.row = d)
                           => answered'[d] =< Owed(d)'
                      /\ note'[d].state = "none" => answered'[d] = 0
    BY <1>2 DEF AnswersOwed
  <2>1. CASE d \in old
    <3>1. answered'[d] = 0 /\ note'[d].attempts = 0 /\ Faults \in Nat
      BY <1>3, <1>4, <2>1, OwedNat DEF NoNote
    <3>2. Owed(d)' = Faults
      BY <1>12, <3>1 DEF Owed
    <3> QED BY <3>1, <3>2
  <2>2. CASE d \notin old
    <3>1. answered'[d] = answered[d] /\ note'[d] = note[d] /\ Owed(d)' = Owed(d)
      BY <1>3, <1>4, <1>12, <2>2 DEF Owed
    <3> QED BY <1>8, <3>1 DEF AnswersOwed
  <2> QED BY <2>1, <2>2
<1> QED BY <1>7, <1>9, <1>10, <1>11, <1>12, <1>13

LEMMA NotifyNextKeeps ==
  ASSUME NotifyInv, NotifyNext
  PROVE  NotifyInv' /\ TableStays
  BY DrainDueKeeps, DrainEndsKeeps, PostKeeps, PostAnsweredKeeps, PostFailsKeeps,
     MarkSuppressedKeeps, MarkDeliveredKeeps, MarkAttemptKeeps, MarkFailsKeeps, BackoffKeeps,
     ProcessKeeps, NotifyPruneKeeps DEF NotifyNext

-----------------------------------------------------------------------------
(* Incidents and their intents.                                            *)

IncidentRow == [of : Monitor, by : {"alert", "cron", "user"}, open : BOOLEAN]
EvalKinds == {"nothing", "open", "repeat", "close"}

IncidentsOK ==
  /\ incidents \in Seq(IncidentRow) /\ Len(incidents) =< MaxIncidents
  /\ eval \in [does : EvalKinds, of : SUBSET Rule, todo : SUBSET Incident]
  /\ eval.todo \subseteq DOMAIN incidents
  /\ overdue \subseteq Cron /\ scanned \subseteq Cron /\ checkins \subseteq Cron

Known == Noted \subseteq AllDeliveries

\* Nothing recovers before its incident is closed.
RecoveredClosed ==
  \A i \in Incident, h \in Hook :
    note[<<i, "recovered", h>>].state # "none" => i \in DOMAIN incidents /\ ~incidents[i].open

OpeningBefore ==
  \A i \in Incident, h \in Hook :
    <<i, "opened", h>> \in Noted /\ <<i, "recovered", h>> \in Noted
      => <<<<i, "opened", h>>, <<i, "recovered", h>>>> \in before

IntentsOK == Known /\ RecoveredClosed /\ OpeningBefore

AlertInv == NotifyInv /\ IncidentsOK /\ IntentsOK

\* Incidents are never forgotten nor opened again.
ClosedStays ==
  \A i \in DOMAIN incidents : /\ i \in DOMAIN incidents'
                              /\ ~incidents[i].open => ~incidents'[i].open

LEMMA IncidentsDomain ==
  ASSUME IncidentsOK
  PROVE  /\ DOMAIN incidents = 1..Len(incidents) /\ DOMAIN incidents \subseteq Incident
         /\ Len(incidents) \in Nat
         /\ \A i \in DOMAIN incidents : incidents[i] \in IncidentRow
  BY AlertAssumption DEF IncidentsOK, Incident

LEMMA CreateTxIs ==
  ASSUME IncidentsOK, NEW m \in Monitor, NEW by \in {"alert", "cron", "user"}, CreateTx(m, by)
  PROVE  /\ incidents' \in Seq(IncidentRow) /\ Len(incidents') =< MaxIncidents
         /\ DOMAIN incidents' = DOMAIN incidents \cup {NewIncident}
         /\ NewIncident \in Incident /\ NewIncident \notin DOMAIN incidents
         /\ incidents'[NewIncident] = [of |-> m, by |-> by, open |-> TRUE]
         /\ \A i \in DOMAIN incidents : incidents'[i] = incidents[i]
         /\ ClosedStays
<1> DEFINE row == [of |-> m, by |-> by, open |-> TRUE]
<1>1. row \in IncidentRow
  BY DEF IncidentRow
<1>2. Len(incidents) < MaxIncidents /\ incidents' = Append(incidents, row)
  BY DEF CreateTx
<1> HIDE DEF row
<1>3. /\ incidents' \in Seq(IncidentRow) /\ Len(incidents') = Len(incidents) + 1
      /\ \A i \in 1..Len(incidents) : incidents'[i] = incidents[i]
      /\ incidents'[Len(incidents) + 1] = row
  BY <1>1, <1>2 DEF IncidentsOK
<1>4. DOMAIN incidents' = 1..(Len(incidents) + 1) /\ Len(incidents) \in Nat
  BY <1>3 DEF IncidentsOK
<1>5. DOMAIN incidents = 1..Len(incidents)
  BY IncidentsDomain
<1>6. NewIncident = Len(incidents) + 1
  BY DEF NewIncident
<1>7. NewIncident \in Incident
  BY <1>2, <1>4, <1>6, AlertAssumption DEF Incident
<1>8. ClosedStays
  BY <1>3, <1>4, <1>5 DEF ClosedStays
<1> QED BY <1>2, <1>3, <1>4, <1>5, <1>6, <1>7, <1>8, AlertAssumption DEF row

LEMMA CloseTxIs ==
  ASSUME IncidentsOK, NEW S, CloseTx(S)
  PROVE  /\ incidents' \in Seq(IncidentRow) /\ Len(incidents') =< MaxIncidents
         /\ DOMAIN incidents' = DOMAIN incidents
         /\ \A i \in DOMAIN incidents \cap S : ~incidents'[i].open
         /\ ClosedStays
<1>1. /\ DOMAIN incidents = 1..Len(incidents) /\ Len(incidents) \in Nat
      /\ \A i \in DOMAIN incidents : incidents[i] \in IncidentRow
  BY IncidentsDomain
<1>2. incidents' = [i \in DOMAIN incidents |->
                      IF i \in S THEN [incidents[i] EXCEPT !.open = FALSE] ELSE incidents[i]]
  BY DEF CloseTx
<1>3. \A i \in DOMAIN incidents : incidents'[i] \in IncidentRow
  BY <1>1, <1>2 DEF IncidentRow
<1>4. DOMAIN incidents' = 1..Len(incidents)
  BY <1>1, <1>2
<1>5. incidents' \in [1..Len(incidents) -> IncidentRow]
  BY <1>1, <1>2, <1>3
<1>6. incidents' \in Seq(IncidentRow) /\ Len(incidents') = Len(incidents)
  BY <1>1, <1>5
<1>7. \A i \in DOMAIN incidents \cap S : ~incidents'[i].open
  BY <1>1, <1>2 DEF IncidentRow
<1>8. ClosedStays
  BY <1>1, <1>2 DEF ClosedStays, IncidentRow
<1> QED BY <1>1, <1>4, <1>6, <1>7, <1>8 DEF IncidentsOK

\* The intents of an edge keep the order of the edges of their incident.
LEMMA NotifyKeeps ==
  ASSUME AlertInv, NEW S \in SUBSET Incident, NEW kind \in NoteKind, Notify(S, kind),
         UNCHANGED <<answered, notifier, drain, noteCounters>>, ClosedStays,
         kind = "recovered" => \A i \in S : i \in DOMAIN incidents' /\ ~incidents'[i].open,
         kind = "opened" => \A i \in S : i \notin DOMAIN incidents \/ incidents[i].open
  PROVE  /\ NotifyInv' /\ IntentsOK'
         /\ \A d \in Delivery : note[d].state # "none" => note'[d] = note[d]
         /\ \A d \in Delivery : note[d].state = "none" /\ note'[d].state # "none" =>
              d \in IntentsOf(S, kind)
<1> DEFINE new == Unsent(S, kind)
<1> USE DEF AlertInv, IntentsOK
<1>1. /\ new \subseteq IntentsOf(S, kind) /\ IntentsOf(S, kind) \subseteq AllDeliveries
      /\ \A d \in new : note[d].state = "none"
  BY DEF Unsent, IntentsOf, AllDeliveries
<1>2. new \subseteq Delivery
  BY <1>1, AlertAssumption
<1>3. Enqueue(new)
  BY DEF Notify
<1> HIDE DEF new
<1>4. /\ NotifyInv'
      /\ \A d \in Delivery \ new : note'[d] = note[d]
      /\ \A d \in new : note'[d].state = "due"
      /\ before' = before \cup (Noted \X new)
  BY <1>1, <1>2, <1>3, EnqueueKeeps
<1>5. Noted' = Noted \cup new
  BY <1>1, <1>2, <1>4 DEF Noted
<1>6. Known'
  BY <1>1, <1>5 DEF Known, AllDeliveries, Incident, NoteKind
<1>7. RecoveredClosed'
  <2> SUFFICES ASSUME NEW i \in Incident, NEW h \in Hook,
                      note'[<<i, "recovered", h>>].state # "none"
               PROVE  i \in DOMAIN incidents' /\ ~incidents'[i].open
    BY DEF RecoveredClosed
  <2>1. <<i, "recovered", h>> \in Delivery
    BY AlertAssumption DEF AllDeliveries, NoteKind
  <2>2. CASE <<i, "recovered", h>> \in new
    BY <1>1, <2>2 DEF IntentsOf
  <2>3. CASE <<i, "recovered", h>> \notin new
    BY <1>4, <2>1, <2>3 DEF RecoveredClosed, ClosedStays
  <2> QED BY <2>2, <2>3
<1>8. OpeningBefore'
  <2> SUFFICES ASSUME NEW i \in Incident, NEW h \in Hook,
                      <<i, "opened", h>> \in Noted', <<i, "recovered", h>> \in Noted'
               PROVE  <<<<i, "opened", h>>, <<i, "recovered", h>>>> \in before'
    BY DEF OpeningBefore
  <2>1. CASE <<i, "recovered", h>> \in new
    <3>1. kind = "recovered"
      BY <1>1, <2>1 DEF IntentsOf
    <3>2. <<i, "opened", h>> \notin new
      BY <1>1, <3>1 DEF IntentsOf
    <3> QED BY <1>4, <1>5, <2>1, <3>2
  <2>2. CASE <<i, "recovered", h>> \notin new
    <3>1. <<i, "recovered", h>> \in Noted
      BY <1>5, <2>2
    <3>2. i \in DOMAIN incidents /\ ~incidents[i].open
      BY <3>1 DEF RecoveredClosed, Noted
    <3>3. <<i, "opened", h>> \notin new
      BY <1>1, <3>2 DEF IntentsOf
    <3> QED BY <1>4, <1>5, <3>1, <3>3 DEF OpeningBefore
  <2> QED BY <2>1, <2>2
<1> QED BY <1>1, <1>2, <1>4, <1>6, <1>7, <1>8

\* Whatever leaves the table alone.
LEMMA UnnotifiedKeeps ==
  ASSUME AlertInv, UNCHANGED notifyVars, ClosedStays
  PROVE  NotifyInv' /\ IntentsOK'
<1>1. NotifyInv'
  BY OutboxSame DEF AlertInv
<1>2. note' = note /\ before' = before
  BY DEF notifyVars, noteTable
<1>3. IntentsOK'
  BY <1>2 DEF AlertInv, IntentsOK, Known, RecoveredClosed, OpeningBefore, Noted, ClosedStays
<1> QED BY <1>1, <1>3

\* What every step does to the incidents and to the intents.
EdgeStep == NoSecondIncident /\ RecoveryIsAnEdge
AlertStepOK == AlertInv' /\ SettledStays /\ EdgeStep

\* A step without a transaction.
LEMMA QuietStep ==
  ASSUME AlertInv, UNCHANGED notifyVars, UNCHANGED incidents, IncidentsOK'
  PROVE  AlertStepOK
<1>1. ClosedStays
  BY DEF ClosedStays
<1>2. AlertInv'
  BY <1>1, UnnotifiedKeeps DEF AlertInv
<1>3. SettledStays
  BY DEF SettledStays, notifyVars, noteTable
<1>4. EdgeStep
  BY DEF EdgeStep, NoSecondIncident, RecoveryIsAnEdge, notifyVars, noteTable
<1> QED BY <1>2, <1>3, <1>4 DEF AlertStepOK

\* A step that announces nothing new, or an opening or a repeat, and opens no
\* incident but the one of a monitor that has none.
LEMMA OpeningStep ==
  ASSUME AlertInv, NEW S \in SUBSET Incident, NEW kind \in {"opened", "repeat"},
         Notify(S, kind), UNCHANGED <<answered, notifier, drain, noteCounters>>, ClosedStays,
         kind = "opened" => \A i \in S : i \notin DOMAIN incidents \/ incidents[i].open,
         NoSecondIncident, IncidentsOK'
  PROVE  AlertStepOK
<1>1. /\ NotifyInv' /\ IntentsOK'
      /\ \A d \in Delivery : note[d].state # "none" => note'[d] = note[d]
      /\ \A d \in Delivery : note[d].state = "none" /\ note'[d].state # "none" =>
           d \in IntentsOf(S, kind)
  BY NotifyKeeps DEF NoteKind
<1>2. SettledStays
  BY <1>1 DEF SettledStays, NoteSettled
<1>3. RecoveryIsAnEdge
  BY <1>1 DEF RecoveryIsAnEdge, IntentsOf
<1> QED BY <1>1, <1>2, <1>3 DEF AlertInv, AlertStepOK, EdgeStep

\* The transaction that closes open incidents announces their recovery.
LEMMA ClosingStep ==
  ASSUME AlertInv, NEW S \in SUBSET DOMAIN incidents, \A i \in S : incidents[i].open,
         CloseTx(S), Notify(S, "recovered"),
         UNCHANGED <<answered, notifier, drain, noteCounters>>, IncidentsOK'
  PROVE  AlertStepOK
<1>1. /\ DOMAIN incidents' = DOMAIN incidents /\ ClosedStays
      /\ \A i \in S : ~incidents'[i].open
  BY CloseTxIs DEF AlertInv
<1>2. S \in SUBSET Incident
  BY IncidentsDomain DEF AlertInv
<1>3. \A i \in S : i \in DOMAIN incidents' /\ ~incidents'[i].open
  BY <1>1
<1>4. "recovered" \in NoteKind
  BY DEF NoteKind
<1>5. /\ NotifyInv' /\ IntentsOK'
      /\ \A d \in Delivery : note[d].state # "none" => note'[d] = note[d]
      /\ \A d \in Delivery : note[d].state = "none" /\ note'[d].state # "none" =>
           d \in IntentsOf(S, "recovered")
  BY <1>1, <1>2, <1>3, <1>4, NotifyKeeps
<1>6. SettledStays
  BY <1>5 DEF SettledStays, NoteSettled
<1>7. RecoveryIsAnEdge
  BY <1>1, <1>5 DEF RecoveryIsAnEdge, IntentsOf
<1>8. NoSecondIncident
  BY <1>1 DEF NoSecondIncident
<1> QED BY <1>5, <1>6, <1>7, <1>8 DEF AlertInv, AlertStepOK, EdgeStep

LEMMA CheckRuleKeeps ==
  ASSUME AlertInv, NEW r \in Rule, CheckRule(r)
  PROVE  AlertStepOK
<1>1. UNCHANGED notifyVars /\ UNCHANGED incidents
  BY DEF CheckRule, ElsewhereSame, notifyVars
<1>2. ActiveByRule(r) \subseteq DOMAIN incidents /\ DOMAIN incidents \subseteq Incident
  BY IncidentsDomain DEF ActiveByRule, AlertInv
<1>3. /\ eval' \in [does : EvalKinds, of : SUBSET Rule, todo : SUBSET Incident]
      /\ eval'.todo \subseteq DOMAIN incidents
  <2>1. \E k \in EvalKinds, T \in SUBSET ActiveByRule(r) :
          eval' = [does |-> k, of |-> {r}, todo |-> T]
    BY DEF CheckRule, EvalKinds
  <2>2. PICK k \in EvalKinds, T \in SUBSET ActiveByRule(r) :
          eval' = [does |-> k, of |-> {r}, todo |-> T]
    BY <2>1
  <2>3. T \subseteq DOMAIN incidents /\ T \subseteq Incident /\ {r} \in SUBSET Rule
    BY <1>2
  <2> QED BY <2>2, <2>3
<1>4. IncidentsOK'
  BY <1>1, <1>3 DEF CheckRule, IncidentsOK, AlertInv
<1> QED BY <1>1, <1>4, QuietStep

LEMMA CommitOpenKeeps ==
  ASSUME AlertInv, NEW r \in Rule, CommitOpen(r)
  PROVE  AlertStepOK
<1>1. /\ eval' = NoEval /\ UNCHANGED <<overdue, scanned, checkins>>
      /\ UNCHANGED <<answered, notifier, drain, noteCounters>>
  BY DEF CommitOpen, ElsewhereSame
<1>2. NoEval \in [does : EvalKinds, of : SUBSET Rule, todo : SUBSET Incident]
      /\ NoEval.todo = {}
  BY DEF NoEval, EvalKinds
<1>3. CASE StillNoneActive(r)
  <2>1. CreateTx(r, "alert") /\ Notify({NewIncident}, "opened")
    BY <1>3 DEF CommitOpen
  <2>2. r \in Monitor
    BY DEF Monitor
  <2>3. /\ incidents' \in Seq(IncidentRow) /\ Len(incidents') =< MaxIncidents
        /\ DOMAIN incidents' = DOMAIN incidents \cup {NewIncident}
        /\ NewIncident \in Incident /\ NewIncident \notin DOMAIN incidents
        /\ incidents'[NewIncident] = [of |-> r, by |-> "alert", open |-> TRUE]
        /\ ClosedStays
    BY <2>1, <2>2, CreateTxIs DEF AlertInv
  <2>4. IncidentsOK'
    BY <1>1, <1>2, <2>3 DEF IncidentsOK, AlertInv
  <2>5. NoSecondIncident
    <3>1. ActiveByRule(r) = {}
      BY <1>3 DEF StillNoneActive
    <3>2. ASSUME NEW i \in DOMAIN incidents' \ DOMAIN incidents
          PROVE  ActiveByRule(incidents'[i].of) = {}
      <4>1. incidents'[i].of = r
        BY <2>3
      <4> QED BY <3>1, <4>1
    <3> QED BY <3>2 DEF NoSecondIncident
  <2> QED BY <1>1, <2>1, <2>3, <2>4, <2>5, OpeningStep
<1>4. CASE ~StillNoneActive(r)
  <2>1. UNCHANGED incidents /\ UNCHANGED notifyVars
    BY <1>4 DEF CommitOpen, Unnotified, ElsewhereSame, notifyVars
  <2>2. IncidentsOK'
    BY <1>1, <1>2, <2>1 DEF IncidentsOK, AlertInv
  <2> QED BY <2>1, <2>2, QuietStep
<1> QED BY <1>3, <1>4

LEMMA CommitRepeatKeeps ==
  ASSUME AlertInv, NEW i \in DOMAIN incidents, CommitRepeat(i)
  PROVE  AlertStepOK
<1>1. /\ Notify({i}, "repeat") /\ eval' = NoEval
      /\ UNCHANGED <<incidents, overdue, scanned, checkins>>
      /\ UNCHANGED <<answered, notifier, drain, noteCounters>>
  BY DEF CommitRepeat, ElsewhereSame
<1>2. NoEval \in [does : EvalKinds, of : SUBSET Rule, todo : SUBSET Incident]
      /\ NoEval.todo = {}
  BY DEF NoEval, EvalKinds
<1>3. IncidentsOK'
  BY <1>1, <1>2 DEF IncidentsOK, AlertInv
<1>4. {i} \in SUBSET Incident
  BY IncidentsDomain DEF AlertInv
<1>5. ClosedStays /\ NoSecondIncident
  BY <1>1 DEF ClosedStays, NoSecondIncident
<1> QED BY <1>1, <1>3, <1>4, <1>5, OpeningStep

LEMMA CommitCloseKeeps ==
  ASSUME AlertInv, NEW i \in DOMAIN incidents, CommitClose(i)
  PROVE  AlertStepOK
<1>1. /\ EvalGoesOn(i) /\ UNCHANGED <<overdue, scanned, checkins>>
      /\ UNCHANGED <<answered, notifier, drain, noteCounters>>
  BY DEF CommitClose, ElsewhereSame
<1>2. /\ eval' \in [does : EvalKinds, of : SUBSET Rule, todo : SUBSET Incident]
      /\ eval'.todo \subseteq DOMAIN incidents
  BY <1>1 DEF EvalGoesOn, NoEval, EvalKinds, IncidentsOK, AlertInv
<1>3. CASE StillOpen(i)
  <2>1. CloseTx({i}) /\ Notify({i}, "recovered")
    BY <1>3 DEF CommitClose
  <2>2. /\ incidents' \in Seq(IncidentRow) /\ Len(incidents') =< MaxIncidents
        /\ DOMAIN incidents' = DOMAIN incidents
    BY <2>1, CloseTxIs DEF AlertInv
  <2>3. IncidentsOK'
    BY <1>1, <1>2, <2>2 DEF IncidentsOK, AlertInv
  <2>4. {i} \in SUBSET DOMAIN incidents /\ \A j \in {i} : incidents[j].open
    BY <1>3 DEF StillOpen
  <2> QED BY <1>1, <2>1, <2>3, <2>4, ClosingStep
<1>4. CASE ~StillOpen(i)
  <2>1. UNCHANGED incidents /\ UNCHANGED notifyVars
    BY <1>4 DEF CommitClose, Unnotified, ElsewhereSame, notifyVars
  <2>2. IncidentsOK'
    BY <1>1, <1>2, <2>1 DEF IncidentsOK, AlertInv
  <2> QED BY <2>1, <2>2, QuietStep
<1> QED BY <1>3, <1>4

\* The steps that touch neither an incident nor an intent.
LEMMA UntouchedKeeps ==
  ASSUME AlertInv,
         \/ CommitFails \/ CheckMissed \/ EnsureFails
         \/ \E c \in Cron : Overdue(c) \/ CheckIn(c) \/ RecoverFails(c)
  PROVE  AlertStepOK
<1>1. UNCHANGED incidents /\ UNCHANGED notifyVars
  BY DEF CommitFails, CheckMissed, EnsureFails, Overdue, CheckIn, RecoverFails, ElsewhereSame,
         notifyVars
<1>2. NoEval \in [does : EvalKinds, of : SUBSET Rule, todo : SUBSET Incident]
      /\ NoEval.todo = {}
  BY DEF NoEval, EvalKinds
<1>3. eval' = eval \/ eval' = NoEval
  BY DEF CommitFails, CheckMissed, EnsureFails, Overdue, CheckIn, RecoverFails
<1>4. overdue' \subseteq Cron /\ scanned' \subseteq Cron /\ checkins' \subseteq Cron
  BY DEF CommitFails, CheckMissed, EnsureFails, Overdue, CheckIn, RecoverFails, IncidentsOK,
         AlertInv
<1>5. IncidentsOK'
  BY <1>1, <1>2, <1>3, <1>4 DEF IncidentsOK, AlertInv
<1> QED BY <1>1, <1>5, QuietStep

LEMMA EnsureCronMissedKeeps ==
  ASSUME AlertInv, NEW c \in Cron, EnsureCronMissed(c)
  PROVE  AlertStepOK
<1>1. /\ scanned' = scanned \ {c} /\ UNCHANGED <<eval, overdue, checkins>>
      /\ UNCHANGED <<answered, notifier, drain, noteCounters>>
  BY DEF EnsureCronMissed, ElsewhereSame
<1>2. CASE ActiveByRule(c) = {}
  <2>1. CreateTx(c, "cron") /\ Notify({NewIncident}, "opened")
    BY <1>2 DEF EnsureCronMissed
  <2>2. c \in Monitor
    BY DEF Monitor
  <2>3. /\ incidents' \in Seq(IncidentRow) /\ Len(incidents') =< MaxIncidents
        /\ DOMAIN incidents' = DOMAIN incidents \cup {NewIncident}
        /\ NewIncident \in Incident /\ NewIncident \notin DOMAIN incidents
        /\ incidents'[NewIncident] = [of |-> c, by |-> "cron", open |-> TRUE]
        /\ ClosedStays
    BY <2>1, <2>2, CreateTxIs DEF AlertInv
  <2>4. IncidentsOK'
    BY <1>1, <2>3 DEF IncidentsOK, AlertInv
  <2>5. NoSecondIncident
    <3>1. ASSUME NEW i \in DOMAIN incidents' \ DOMAIN incidents
          PROVE  ActiveByRule(incidents'[i].of) = {}
      <4>1. incidents'[i].of = c
        BY <2>3
      <4> QED BY <1>2, <4>1
    <3> QED BY <3>1 DEF NoSecondIncident
  <2> QED BY <1>1, <2>1, <2>3, <2>4, <2>5, OpeningStep
<1>3. CASE ActiveByRule(c) # {}
  <2>1. PICK i \in ActiveByRule(c) : Notify({i}, "opened")
    BY <1>3 DEF EnsureCronMissed
  <2>2. incidents' = incidents
    BY <1>3 DEF EnsureCronMissed
  <2>3. i \in DOMAIN incidents /\ incidents[i].open /\ {i} \in SUBSET Incident
    BY IncidentsDomain DEF ActiveByRule, AlertInv
  <2>4. IncidentsOK'
    BY <1>1, <2>2 DEF IncidentsOK, AlertInv
  <2>5. ClosedStays /\ NoSecondIncident
    BY <2>2 DEF ClosedStays, NoSecondIncident
  <2> QED BY <1>1, <2>1, <2>3, <2>4, <2>5, OpeningStep
<1> QED BY <1>2, <1>3

LEMMA RecoverCronKeeps ==
  ASSUME AlertInv, NEW c \in Cron, RecoverCron(c)
  PROVE  AlertStepOK
<1>1. /\ CloseTx(ActiveByRule(c)) /\ Notify(ActiveByRule(c), "recovered")
      /\ checkins' = checkins \ {c} /\ UNCHANGED <<eval, overdue, scanned>>
      /\ UNCHANGED <<answered, notifier, drain, noteCounters>>
  BY DEF RecoverCron, ElsewhereSame
<1>2. /\ incidents' \in Seq(IncidentRow) /\ Len(incidents') =< MaxIncidents
      /\ DOMAIN incidents' = DOMAIN incidents
  BY <1>1, CloseTxIs DEF AlertInv
<1>3. IncidentsOK'
  BY <1>1, <1>2 DEF IncidentsOK, AlertInv
<1>4. /\ ActiveByRule(c) \in SUBSET DOMAIN incidents
      /\ \A i \in ActiveByRule(c) : incidents[i].open
  BY DEF ActiveByRule
<1> QED BY <1>1, <1>3, <1>4, ClosingStep

\* The operator's own steps announce nothing.
LEMMA OperatorKeeps ==
  ASSUME AlertInv,
         (\E i \in DOMAIN incidents : Close(i)) \/ \E m \in Monitor : Create(m)
  PROVE  AlertStepOK
<1>1. /\ UNCHANGED notifyVars /\ UNCHANGED <<eval, overdue, scanned, checkins>>
      /\ note' = note
  BY DEF Close, Create, ElsewhereSame, notifyVars, noteTable
<1>2. /\ incidents' \in Seq(IncidentRow) /\ Len(incidents') =< MaxIncidents
      /\ DOMAIN incidents \subseteq DOMAIN incidents' /\ ClosedStays /\ NoSecondIncident
  <2>1. ASSUME NEW i \in DOMAIN incidents, Close(i) PROVE <1>2
    <3>1. CloseTx({i})
      BY <2>1 DEF Close
    <3>2. /\ incidents' \in Seq(IncidentRow) /\ Len(incidents') =< MaxIncidents
          /\ DOMAIN incidents' = DOMAIN incidents /\ ClosedStays
      BY <3>1, CloseTxIs DEF AlertInv
    <3> QED BY <3>2 DEF NoSecondIncident
  <2>2. ASSUME NEW m \in Monitor, Create(m) PROVE <1>2
    <3>1. CreateTx(m, "user")
      BY <2>2 DEF Create
    <3>2. /\ incidents' \in Seq(IncidentRow) /\ Len(incidents') =< MaxIncidents
          /\ DOMAIN incidents' = DOMAIN incidents \cup {NewIncident}
          /\ incidents'[NewIncident] = [of |-> m, by |-> "user", open |-> TRUE]
          /\ ClosedStays
      BY <3>1, CreateTxIs DEF AlertInv
    <3> QED BY <3>2 DEF NoSecondIncident
  <2> QED BY <2>1, <2>2
<1>3. IncidentsOK'
  BY <1>1, <1>2 DEF IncidentsOK, AlertInv
<1>4. AlertInv'
  BY <1>1, <1>2, <1>3, UnnotifiedKeeps DEF AlertInv
<1>5. SettledStays /\ RecoveryIsAnEdge
  BY <1>1 DEF SettledStays, RecoveryIsAnEdge
<1> QED BY <1>2, <1>4, <1>5 DEF AlertStepOK, EdgeStep

LEMMA DeliveringKeeps ==
  ASSUME AlertInv, Delivering
  PROVE  AlertStepOK
<1>1. /\ NotifyNext /\ UNCHANGED <<incidents, overdue>>
      /\ \/ eval' = NoEval /\ scanned' = {} /\ checkins' = {}
         \/ UNCHANGED <<eval, scanned, checkins>>
  BY DEF Delivering, AlertsGone
<1>2. NotifyInv' /\ NoneAppears /\ OrderStays /\ SettledStays
  BY <1>1, NotifyNextKeeps DEF AlertInv, TableStays
<1>3. NoEval \in [does : EvalKinds, of : SUBSET Rule, todo : SUBSET Incident]
      /\ NoEval.todo = {}
  BY DEF NoEval, EvalKinds
<1>4. IncidentsOK'
  BY <1>1, <1>3 DEF IncidentsOK, AlertInv
<1>5. Noted' \subseteq Noted
  BY <1>2 DEF NoneAppears, Noted
<1>6. Known' /\ OpeningBefore'
  BY <1>2, <1>5 DEF AlertInv, IntentsOK, Known, OpeningBefore, OrderStays, AllDeliveries, Incident,
                    NoteKind
<1>7. RecoveredClosed'
  <2> SUFFICES ASSUME NEW i \in Incident, NEW h \in Hook,
                      note'[<<i, "recovered", h>>].state # "none"
               PROVE  i \in DOMAIN incidents /\ ~incidents[i].open
    BY <1>1 DEF RecoveredClosed
  <2>1. <<i, "recovered", h>> \in Delivery
    BY AlertAssumption DEF AllDeliveries, NoteKind
  <2> QED BY <1>2, <2>1 DEF NoneAppears, AlertInv, IntentsOK, RecoveredClosed
<1>8. EdgeStep
  BY <1>1, <1>2 DEF EdgeStep, NoSecondIncident, RecoveryIsAnEdge, NoneAppears
<1> QED BY <1>2, <1>4, <1>6, <1>7, <1>8 DEF AlertInv, IntentsOK, AlertStepOK

-----------------------------------------------------------------------------
(* The theorems.                                                           *)

LEMMA AlertInitInv == AlertInit => AlertInv
<1> SUFFICES ASSUME AlertInit PROVE AlertInv
  OBVIOUS
<1>1. /\ note = [d \in Delivery |-> NoNote] /\ before = {} /\ drain = NoPass /\ notifier = "up"
      /\ answered = [d \in Delivery |-> 0]
      /\ markFaults = 0 /\ notifyCrashes = 0 /\ notifyStops = 0 /\ notifyPrunes = 0
      /\ notifyCuts = 0 /\ incidents = <<>> /\ eval = NoEval /\ overdue = {} /\ scanned = {} /\ checkins = {}
  BY DEF AlertInit, NotifyInit
<1>2. \A d \in Delivery : note[d] = NoNote
  BY <1>1
<1>3. Noted = {}
  BY <1>2 DEF Noted, NoNote
<1>4. NotesOK
  BY <1>1, <1>2, <1>3, NotifyAssumption DEF NotesOK, NoteStates, NoNote, NotePending
<1>5. DrainOK /\ DrainInOrder
  BY <1>1, NotifyAssumption DEF DrainOK, DrainInOrder, NoPass, Phases
<1>6. CountsOK /\ AnswersOwed /\ CutsOK
  BY <1>1, <1>2 DEF CountsOK, AnswersOwed, Owed, Faults, CutsOK, NotifyCancelled, NoNote
<1>7. IncidentsOK
  BY <1>1, AlertAssumption DEF IncidentsOK, NoEval, EvalKinds
<1>8. IntentsOK
  <2>1. \A i \in Incident, h \in Hook : <<i, "recovered", h>> \in Delivery
    BY AlertAssumption DEF AllDeliveries, NoteKind
  <2> QED BY <1>2, <1>3, <2>1 DEF IntentsOK, Known, RecoveredClosed, OpeningBefore, NoNote
<1> QED BY <1>4, <1>5, <1>6, <1>7, <1>8 DEF AlertInv, NotifyInv

LEMMA AlertStep ==
  ASSUME AlertInv, [AlertNext]_<<notifyVars, alertVars>>
  PROVE  AlertStepOK
<1>1. CASE UNCHANGED <<notifyVars, alertVars>>
  <2>1. UNCHANGED notifyVars /\ UNCHANGED incidents
    BY <1>1 DEF alertVars
  <2>2. IncidentsOK'
    BY <1>1 DEF alertVars, IncidentsOK, AlertInv
  <2> QED BY <2>1, <2>2, QuietStep
<1>2. CASE AlertNext
  BY <1>2, DeliveringKeeps, CheckRuleKeeps, CommitOpenKeeps, CommitRepeatKeeps, CommitCloseKeeps,
     UntouchedKeeps, EnsureCronMissedKeeps, RecoverCronKeeps, OperatorKeeps DEF AlertNext
<1> QED BY <1>1, <1>2

(* The invariant of the alerts and their outbox: what a pass holds is      *)
(* pending and in the order of the table, every answer of a target is      *)
(* accounted for, and the intents of an incident follow its edges.         *)
THEOREM AlertInvariant == AlertSpec => []AlertInv
<1>1. AlertInv /\ [AlertNext]_<<notifyVars, alertVars>> => AlertInv'
  BY AlertStep DEF AlertStepOK
<1> QED BY <1>1, AlertInitInv, PTL DEF AlertSpec

(* The rows, the pass, the incidents and the evaluation are what the code  *)
(* declares, and a pass works on pending rows only.                        *)
THEOREM AlertTyped == AlertSpec => []AlertTypeOK
<1>1. AlertInv => AlertTypeOK
  <2> SUFFICES ASSUME AlertInv PROVE AlertTypeOK
    OBVIOUS
  <2>1. NotifyTypeOK
    BY DEF AlertInv, NotifyInv, NotifyTypeOK, NotesOK, DrainOK, CountsOK, NoteStates, Phases
  <2> QED BY <2>1 DEF AlertTypeOK, AlertInv, IncidentsOK, IncidentRow, EvalKinds
<1> QED BY <1>1, AlertInvariant, PTL

(* A target answers an intent at most once more than the intent had failed *)
(* attempts, crashes, failed marks and requests that a stop cut: one for   *)
(* each stop, and none of them once the answer is there.                   *)
THEOREM AnswersAreOwed == AlertSpec => []OverdeliveryBounded
<1>1. AlertInv => OverdeliveryBounded
  <2> SUFFICES ASSUME AlertInv PROVE OverdeliveryBounded
    OBVIOUS
  <2>1. notifyCuts =< notifyStops
    BY DEF AlertInv, NotifyInv, CutsOK
  <2>2. ASSUME NEW d \in Delivery
        PROVE  answered[d] =< 1 + note[d].attempts + markFaults + notifyCrashes + notifyCuts
    <3>1. answered[d] =< 1 + (note[d].attempts + (markFaults + notifyCrashes + notifyCuts))
      BY DEF AlertInv, NotifyInv, AnswersOwed, Owed, Faults
    <3>2. /\ answered[d] \in Nat /\ note[d].attempts \in Nat /\ markFaults \in Nat
          /\ notifyCrashes \in Nat /\ notifyCuts \in Nat
      BY OwedNat DEF AlertInv, NotifyInv, CountsOK
    <3> QED BY <3>1, <3>2
  <2> QED BY <2>1, <2>2 DEF OverdeliveryBounded
<1> QED BY <1>1, AlertInvariant, PTL

(* A recovery is posted after its opening, unless that one has failed.     *)
THEOREM OpeningsFirst == AlertSpec => []OpeningFirst
<1>1. AlertInv => OpeningFirst
  <2> SUFFICES ASSUME AlertInv, drain.phase = "posting", drain.row[2] = "recovered",
                      note[<<drain.row[1], "opened", drain.row[3]>>].state \in {"due", "later"}
               PROVE  note[<<drain.row[1], "opened", drain.row[3]>>].attempts > 0
    BY DEF OpeningFirst
  <2>1. drain.row \in Delivery /\ NotePending(drain.row)
    BY DEF AlertInv, NotifyInv, DrainOK
  <2>2. drain.row \in AllDeliveries
    BY <2>1 DEF AlertInv, IntentsOK, Known, Noted, NotePending
  <2>3. PICK i \in Incident, h \in Hook : drain.row = <<i, "recovered", h>>
    BY <2>2 DEF AllDeliveries
  <2> DEFINE opening == <<i, "opened", h>>
  <2>4. opening \in Delivery /\ NotePending(opening) /\ opening \in Noted /\ drain.row \in Noted
    BY <2>1, <2>3, AlertAssumption DEF AllDeliveries, NoteKind, NotePending, Noted
  <2>5. <<opening, drain.row>> \in before
    BY <2>3, <2>4 DEF AlertInv, IntentsOK, OpeningBefore
  <2>6. note[opening].attempts # 0
    BY <2>1, <2>4, <2>5 DEF AlertInv, NotifyInv, DrainInOrder
  <2>7. note[opening].attempts \in Nat
    BY <2>4 DEF AlertInv, NotifyInv, NotesOK
  <2> QED BY <2>3, <2>6, <2>7
<1> QED BY <1>1, AlertInvariant, PTL

(* What became of an intent is final but for the retention.                *)
THEOREM SettledIntentsFinal == AlertSpec => NotifySettledFinal
<1>1. AlertInv /\ [AlertNext]_<<notifyVars, alertVars>> => [SettledStays]_notifyVars
  BY AlertStep DEF AlertStepOK
<1>2. SettledStays <=> \A d \in Delivery : NoteSettled(d) =>
        note'[d].state = note[d].state \/ (note[d].state # "dead" /\ note'[d] = NoNote)
  BY DEF SettledStays
<1> QED BY <1>1, <1>2, AlertInvariant, PTL DEF AlertSpec, NotifySettledFinal

(* One incident per fault, and a recovery only from the step that closes   *)
(* its incident, whatever the operator does between a reading and its      *)
(* transaction.                                                            *)
THEOREM OneEdgePerFault == AlertSpec => EdgesOnce
<1>1. AlertInv /\ [AlertNext]_<<notifyVars, alertVars>>
        => [NoSecondIncident /\ RecoveryIsAnEdge]_<<notifyVars, alertVars>>
  BY AlertStep DEF AlertStepOK, EdgeStep
<1> QED BY <1>1, AlertInvariant, PTL DEF AlertSpec, EdgesOnce

-----------------------------------------------------------------------------
(***************************************************************************)
(* The issue dispatcher.                                                   *)
(***************************************************************************)

DispatchWork ==
  [at : {"off", "draining", "routing", "claimed", "delivering", "returning"},
   of : SUBSET Topic, todo : SUBSET Integration, now : Integration \cup {Site},
   site : {"undecided", "allowed", "denied"}]

AtNotice == {"routing", "claimed", "delivering"}

Slots == {w \in Worker : HoldsSlot(w)}

DispatchTyped ==
  /\ notices \in Seq(Topic) /\ Len(notices) =< DispatchQueue
  /\ workers \in [Worker -> DispatchWork]
  /\ cool \subseteq Integration \X Topic
  /\ buckets \in [Integration \cup {Site} ->
                    [tokens : 0..PerHour, suppressing : BOOLEAN, summary : BOOLEAN]]
  /\ dispatch \in {"open", "stopping", "stopped", "cut"} /\ noticed \in 0..MaxNotices

\* A worker at a notice has that one notice, any other has none.
OneNotice ==
  \A w \in Worker : IF workers[w].at \in AtNotice THEN \E i \in Topic : workers[w].of = {i}
                                                  ELSE workers[w].of = {}

\* Whoever tells an integration of an issue has claimed it, and alone.
ClaimedByOne ==
  \A w \in Worker, x \in Integration, i \in Topic : Telling(w, x, i) =>
    <<x, i>> \in cool /\ \A v \in Worker : Telling(v, x, i) => w = v

DispatchInv ==
  /\ DispatchTyped /\ OneNotice /\ Cardinality(Slots) =< DispatchSlots
  /\ NeverStranded /\ ClaimedByOne

LEMMA SlotsAreFinite == IsFiniteSet(Slots) /\ Cardinality(Slots) \in Nat
BY DispatchAssumption, FS_Subset, FS_CardinalityType DEF Slots

(* A step that gives no worker a slot leaves no more of them taken.        *)
LEMMA SlotsGiven ==
  ASSUME Slots' \subseteq Slots, Cardinality(Slots) =< DispatchSlots
  PROVE  Cardinality(Slots') =< DispatchSlots
<1>1. /\ Cardinality(Slots) \in Nat /\ Cardinality(Slots') \in Nat
      /\ Cardinality(Slots') =< Cardinality(Slots)
  BY SlotsAreFinite, FS_Subset, FS_CardinalityType
<1> QED BY <1>1, DispatchAssumption

LEMMA DispatchInitially == DispatchInit => DispatchInv
<1> SUFFICES ASSUME DispatchInit PROVE DispatchInv
  OBVIOUS
<1> USE DEF DispatchInit
<1>1. workers \in [Worker -> DispatchWork]
  BY DEF NoWork, DispatchWork
<1>2. DispatchTyped
  BY <1>1, DispatchAssumption DEF DispatchTyped, Full
<1>3. OneNotice /\ NeverStranded /\ ClaimedByOne
  BY DEF OneNotice, AtNotice, NoWork, NeverStranded, ClaimedByOne, Telling
<1>4. Slots = {}
  BY DEF Slots, HoldsSlot, NoWork
<1>5. Cardinality(Slots) =< DispatchSlots
  BY <1>4, DispatchAssumption, FS_EmptySet
<1> QED BY <1>2, <1>3, <1>5 DEF DispatchInv

(* The queue drops its oldest for the newest, and starts a worker while a  *)
(* slot is free: so there is one for it, or there are DispatchSlots.       *)
LEMMA NotifyKeepsDispatch ==
  ASSUME DispatchInv, NEW i \in Topic, NotifyIssue(i)
  PROVE  DispatchInv'
<1> USE DEF DispatchInv, NotifyIssue
<1>1. notices' \in Seq(Topic) /\ Len(notices') =< DispatchQueue /\ notices' # <<>>
  <2> DEFINE kept == IF Len(notices) >= DispatchQueue THEN Tail(notices) ELSE notices
  <2>1. notices \in Seq(Topic) /\ Len(notices) \in Nat /\ Len(notices) =< DispatchQueue
    BY DEF DispatchTyped
  <2>2. kept \in Seq(Topic) /\ Len(kept) < DispatchQueue
    BY <2>1, DispatchAssumption
  <2>3. Len(kept) \in Nat
    BY <2>2
  <2> HIDE DEF kept
  <2>4. /\ Append(kept, i) \in Seq(Topic) /\ Len(Append(kept, i)) = Len(kept) + 1
        /\ Append(kept, i) # <<>>
    BY <2>2, AppendProperties
  <2>5. notices' = Append(kept, i)
    BY DEF kept
  <2>6. Len(kept) + 1 =< DispatchQueue
    BY <2>2, <2>3, DispatchAssumption
  <2> QED BY <2>4, <2>5, <2>6, Zenon
<1>2. CASE Cardinality(Slots) < DispatchSlots
  <2>1. PICK w \in Worker : workers[w].at = "off" /\ workers' = [workers EXCEPT ![w].at = "draining"]
    BY <1>2 DEF Slots
  <2>2. /\ workers' \in [Worker -> DispatchWork] /\ workers'[w].at = "draining"
        /\ \A v \in Worker : /\ v # w => workers'[v] = workers[v]
                             /\ workers'[v].of = workers[v].of /\ workers'[v].now = workers[v].now
    BY <2>1 DEF DispatchTyped, DispatchWork
  <2>3. Slots' = Slots \cup {w} /\ w \notin Slots
    BY <2>1, <2>2 DEF Slots, HoldsSlot
  <2>4. Cardinality(Slots') =< DispatchSlots
    <3>1. Cardinality(Slots') = Cardinality(Slots) + 1
      BY <2>3, SlotsAreFinite, FS_AddElement
    <3> QED BY <1>2, <3>1, SlotsAreFinite, DispatchAssumption
  <2>5. NeverStranded'
    BY <2>2 DEF NeverStranded, HoldsSlot
  <2>6. OneNotice'
    BY <2>1, <2>2 DEF OneNotice, AtNotice
  <2>7. ClaimedByOne'
    BY <2>2 DEF ClaimedByOne, Telling
  <2>8. DispatchTyped'
    BY <1>1, <2>2, DispatchAssumption DEF DispatchTyped
  <2> QED BY <2>4, <2>5, <2>6, <2>7, <2>8
<1>3. CASE ~(Cardinality(Slots) < DispatchSlots)
  <2>1. UNCHANGED workers
    BY <1>3 DEF Slots
  <2>2. Slots # {}
    BY <1>3, DispatchAssumption, SlotsAreFinite, FS_EmptySet
  <2>3. NeverStranded'
    BY <2>1, <2>2 DEF NeverStranded, Slots, HoldsSlot
  <2>4. OneNotice' /\ ClaimedByOne' /\ Cardinality(Slots') =< DispatchSlots
    BY <2>1 DEF OneNotice, ClaimedByOne, Telling, Slots, HoldsSlot
  <2>5. DispatchTyped'
    BY <1>1, <2>1, DispatchAssumption DEF DispatchTyped
  <2> QED BY <2>3, <2>4, <2>5
<1> QED BY <1>2, <1>3

(* What a step of one worker has to be for the rest to stay: the others    *)
(* stay as they are and this one keeps its slot.                           *)
WorkerChange(w, work) ==
  /\ workers' = [workers EXCEPT ![w] = work] /\ work \in DispatchWork
  /\ IF work.at \in AtNotice THEN \E i \in Topic : work.of = {i} ELSE work.of = {}

LEMMA OneWorkerChanges ==
  ASSUME DispatchTyped, OneNotice, NEW w \in Worker, NEW work, WorkerChange(w, work)
  PROVE  /\ workers' \in [Worker -> DispatchWork] /\ OneNotice' /\ workers'[w] = work
         /\ \A v \in Worker \ {w} : workers'[v] = workers[v]
BY DEF DispatchTyped, OneNotice, WorkerChange

(* A worker takes the head of the queue, or has no list of integrations    *)
(* for it and takes the next.                                              *)
LEMMA TakeKeepsDispatch ==
  ASSUME DispatchInv, NEW w \in Worker, TakeNotice(w)
  PROVE  DispatchInv'
<1> USE DEF DispatchInv, TakeNotice
<1>1. notices' \in Seq(Topic) /\ Len(notices') =< DispatchQueue /\ Head(notices) \in Topic
  <2>1. notices \in Seq(Topic) /\ notices # <<>> /\ Len(notices) =< DispatchQueue
    BY DEF DispatchTyped
  <2> QED BY <2>1, DispatchAssumption, HeadTailProperties
<1>2. PICK work : WorkerChange(w, work) /\ work.at \in {"draining", "routing"}
  <2>1. CASE UNCHANGED workers
    <3>1. WorkerChange(w, workers[w]) /\ workers[w].at = "draining"
      BY <2>1 DEF WorkerChange, DispatchTyped, OneNotice, AtNotice
    <3> QED BY <3>1
  <2>2. CASE workers' = [workers EXCEPT ![w] = [NoWork EXCEPT !.at = "routing",
                                          !.of = {Head(notices)}, !.todo = Integration]]
    <3> DEFINE work == [NoWork EXCEPT !.at = "routing", !.of = {Head(notices)}, !.todo = Integration]
    <3>1. work \in DispatchWork /\ work.at = "routing" /\ work.of = {Head(notices)}
      BY <1>1 DEF NoWork, DispatchWork
    <3>2. WorkerChange(w, work)
      BY <1>1, <2>2, <3>1 DEF WorkerChange, AtNotice
    <3> HIDE DEF work
    <3> QED BY <3>1, <3>2
  <2> QED BY <2>1, <2>2
<1>3. /\ workers' \in [Worker -> DispatchWork] /\ OneNotice' /\ workers'[w] = work
      /\ \A v \in Worker \ {w} : workers'[v] = workers[v]
  BY <1>2, OneWorkerChanges
<1>4. NeverStranded'
  BY <1>2, <1>3 DEF NeverStranded, HoldsSlot
<1>5. \A v \in Worker, x \in Integration, i \in Topic : Telling(v, x, i)' => Telling(v, x, i)
  BY <1>2, <1>3 DEF Telling
<1>6. ClaimedByOne'
  BY <1>5 DEF ClaimedByOne
<1>7. Cardinality(Slots') =< DispatchSlots
  <2>1. Slots' \subseteq Slots
    BY <1>3 DEF Slots, HoldsSlot
  <2> QED BY <2>1, SlotsGiven
<1>8. DispatchTyped'
  BY <1>1, <1>3 DEF DispatchTyped
<1> QED BY <1>3, <1>4, <1>6, <1>7, <1>8

(* A worker that finds the queue empty gives its slot back and returns.    *)
LEMMA LeavingKeepsDispatch ==
  ASSUME DispatchInv, NEW w \in Worker, NoticesDone(w) \/ WorkerReturns(w)
  PROVE  DispatchInv'
<1> USE DEF DispatchInv
<1>1. PICK work : WorkerChange(w, work) /\ work.at \in {"returning", "off"}
  <2>1. CASE NoticesDone(w)
    <3> DEFINE work == [workers[w] EXCEPT !.at = "returning"]
    <3>1. work \in DispatchWork /\ work.at = "returning" /\ work.of = {}
      BY <2>1 DEF NoticesDone, DispatchTyped, DispatchWork, OneNotice, AtNotice
    <3>2. WorkerChange(w, work)
      BY <2>1, <3>1 DEF NoticesDone, WorkerChange, AtNotice, DispatchTyped
    <3> HIDE DEF work
    <3> QED BY <3>1, <3>2
  <2>2. CASE WorkerReturns(w)
    <3>1. NoWork \in DispatchWork /\ NoWork.at = "off" /\ NoWork.of = {}
      BY DEF NoWork, DispatchWork
    <3>2. WorkerChange(w, NoWork)
      BY <2>2, <3>1 DEF WorkerReturns, WorkerChange, AtNotice
    <3> QED BY <3>1, <3>2
  <2> QED BY <2>1, <2>2
<1>2. /\ workers' \in [Worker -> DispatchWork] /\ OneNotice' /\ workers'[w] = work
      /\ \A v \in Worker \ {w} : workers'[v] = workers[v]
  BY <1>1, OneWorkerChanges
<1>3. UNCHANGED <<notices, cool, buckets, dispatch, noticed>>
  BY DEF NoticesDone, WorkerReturns
<1>4. notices = <<>> \/ workers[w].at = "returning"
  BY DEF NoticesDone, WorkerReturns
<1>5. NeverStranded'
  BY <1>2, <1>3, <1>4 DEF NeverStranded, HoldsSlot
<1>6. \A v \in Worker, x \in Integration, i \in Topic : Telling(v, x, i)' => Telling(v, x, i)
  BY <1>1, <1>2 DEF Telling
<1>7. ClaimedByOne'
  BY <1>3, <1>6 DEF ClaimedByOne
<1>8. Slots' \subseteq Slots
  BY <1>1, <1>2 DEF Slots, HoldsSlot
<1>9. DispatchTyped'
  BY <1>2, <1>3 DEF DispatchTyped
<1> QED BY <1>2, <1>5, <1>7, <1>8, <1>9, SlotsGiven

(* A claim puts the integration and the issue into the cooldown, which     *)
(* they were not in, so nobody else tells it of the same.                  *)
LEMMA ClaimKeepsDispatch ==
  ASSUME DispatchInv, NEW w \in Worker, NEW x \in Integration, Claim(w, x)
  PROVE  DispatchInv'
<1> USE DEF DispatchInv
<1>1. UNCHANGED <<notices, buckets, dispatch, noticed>> /\ workers[w].at = "routing"
  BY DEF Claim
<1>2. PICK i \in Topic : workers[w].of = {i}
  BY <1>1 DEF OneNotice, AtNotice
<1>3. workers[w] \in DispatchWork
  BY DEF DispatchTyped
<1>4. CASE <<x, i>> \in cool
  <2> DEFINE work == [workers[w] EXCEPT !.at = "routing", !.todo = @ \ {x}]
  <2>1. workers' = [workers EXCEPT ![w] = work] /\ UNCHANGED cool
    BY <1>2, <1>4 DEF Claim, Becomes, DispatchTyped
  <2>2. work \in DispatchWork /\ work.at = "routing" /\ work.of = {i}
    BY <1>2, <1>3 DEF DispatchWork
  <2>3. WorkerChange(w, work)
    BY <2>1, <2>2 DEF WorkerChange, AtNotice
  <2> HIDE DEF work
  <2>4. /\ workers' \in [Worker -> DispatchWork] /\ OneNotice' /\ workers'[w] = work
        /\ \A v \in Worker \ {w} : workers'[v] = workers[v]
    BY <2>3, OneWorkerChanges
  <2>5. \A v \in Worker, y \in Integration, j \in Topic : Telling(v, y, j)' => Telling(v, y, j)
    BY <2>2, <2>4 DEF Telling
  <2>6. ClaimedByOne' /\ NeverStranded' /\ Slots' \subseteq Slots
    BY <1>1, <2>1, <2>2, <2>4, <2>5 DEF ClaimedByOne, NeverStranded, HoldsSlot, Slots
  <2>7. DispatchTyped'
    BY <1>1, <2>1, <2>4 DEF DispatchTyped
  <2> QED BY <2>4, <2>6, <2>7, SlotsGiven
<1>5. CASE <<x, i>> \notin cool
  <2> DEFINE work == [workers[w] EXCEPT !.at = "claimed", !.now = x]
  <2>1. workers' = [workers EXCEPT ![w] = work] /\ cool' = cool \cup {<<x, i>>}
    BY <1>2, <1>5 DEF Claim, Claimed, DispatchTyped
  <2>2. work \in DispatchWork /\ work.at = "claimed" /\ work.of = {i} /\ work.now = x
    BY <1>2, <1>3 DEF DispatchWork
  <2>3. WorkerChange(w, work)
    BY <2>1, <2>2 DEF WorkerChange, AtNotice
  <2> HIDE DEF work
  <2>4. /\ workers' \in [Worker -> DispatchWork] /\ OneNotice' /\ workers'[w] = work
        /\ \A v \in Worker \ {w} : workers'[v] = workers[v]
    BY <2>3, OneWorkerChanges
  <2>5. \A v \in Worker, y \in Integration, j \in Topic :
          Telling(v, y, j)' <=> IF v = w THEN y = x /\ j = i ELSE Telling(v, y, j)
    BY <2>2, <2>4 DEF Telling
  <2>6. \A v \in Worker : ~Telling(v, x, i)
    BY <1>5 DEF ClaimedByOne
  <2>7. ClaimedByOne'
    <3> SUFFICES ASSUME NEW v \in Worker, NEW y \in Integration, NEW j \in Topic, Telling(v, y, j)'
                 PROVE  <<y, j>> \in cool' /\ \A u \in Worker : Telling(u, y, j)' => v = u
      BY DEF ClaimedByOne
    <3>1. CASE v = w
      BY <2>1, <2>5, <2>6, <3>1
    <3>2. CASE v # w
      <4>1. Telling(v, y, j) /\ <<y, j>> # <<x, i>>
        BY <2>5, <2>6, <3>2
      <4>2. <<y, j>> \in cool /\ \A u \in Worker : Telling(u, y, j) => v = u
        BY <4>1 DEF ClaimedByOne
      <4> QED BY <2>1, <2>5, <4>1, <4>2
    <3> QED BY <3>1, <3>2
  <2>8. NeverStranded' /\ Slots' \subseteq Slots
    BY <1>1, <2>2, <2>4 DEF NeverStranded, HoldsSlot, Slots
  <2>9. DispatchTyped'
    BY <1>1, <2>1, <2>4 DEF DispatchTyped
  <2> QED BY <2>4, <2>7, <2>8, <2>9, SlotsGiven
<1> QED BY <1>4, <1>5

(* The buckets decide whether the integration is told, and take nothing    *)
(* below nothing; a delivery ends, a notice is done with.                  *)
LEMMA BucketsTyped ==
  ASSUME DispatchTyped, NEW b \in Integration \cup {Site}
  PROVE  After(b) \in [tokens : 0..PerHour, suppressing : BOOLEAN, summary : BOOLEAN]
<1>1. buckets[b] \in [tokens : 0..PerHour, suppressing : BOOLEAN, summary : BOOLEAN]
  BY DEF DispatchTyped
<1>2. CASE Takes(b)
  <2>1. After(b) = [buckets[b] EXCEPT !.tokens = @ - 1, !.suppressing = FALSE]
    BY <1>2 DEF After
  <2>2. buckets[b].tokens - 1 \in 0..PerHour
    BY <1>1, <1>2, DispatchAssumption DEF Takes
  <2> QED BY <1>1, <2>1, <2>2
<1>3. CASE ~Takes(b)
  BY <1>1, <1>3 DEF After, Summarises
<1> QED BY <1>2, <1>3

LEMMA TellingKeepsDispatch ==
  ASSUME DispatchInv, NEW w \in Worker, Spend(w) \/ DeliveryEnds(w) \/ NoticeHandled(w)
  PROVE  DispatchInv'
<1> USE DEF DispatchInv
<1>1. workers[w] \in DispatchWork
  BY DEF DispatchTyped
<1>2. PICK work : /\ WorkerChange(w, work) /\ work.at \in {"draining", "routing", "delivering"}
                  /\ work.at = "delivering" =>
                       workers[w].at = "claimed" /\ work.of = workers[w].of /\ work.now = workers[w].now
  <2>1. CASE Spend(w)
    <3> DEFINE site == IF workers[w].site # "undecided" THEN workers[w].site
                       ELSE IF Takes(Site) THEN "allowed" ELSE "denied"
               at == IF site = "allowed" /\ Takes(workers[w].now) THEN "delivering" ELSE "routing"
               work == [workers[w] EXCEPT !.site = site, !.at = at, !.todo = @ \ {workers[w].now}]
    <3>1. workers' = [workers EXCEPT ![w] = work] /\ workers[w].at = "claimed"
      BY <2>1 DEF Spend, DispatchTyped
    <3>2. site \in {"undecided", "allowed", "denied"} /\ at \in {"delivering", "routing"}
      BY <1>1 DEF DispatchWork
    <3> HIDE DEF site, at
    <3>3. work \in DispatchWork /\ work.at = at /\ work.of = workers[w].of /\ work.now = workers[w].now
      BY <1>1, <3>2 DEF DispatchWork
    <3> HIDE DEF work
    <3>4. \E i \in Topic : work.of = {i}
      BY <3>1, <3>3 DEF OneNotice, AtNotice
    <3>5. WorkerChange(w, work)
      BY <3>1, <3>2, <3>3, <3>4 DEF WorkerChange, AtNotice
    <3> QED BY <3>1, <3>2, <3>3, <3>5
  <2>2. CASE DeliveryEnds(w)
    <3> DEFINE work == [workers[w] EXCEPT !.at = "routing", !.todo = @]
    <3>1. workers' = [workers EXCEPT ![w] = work] /\ workers[w].at = "delivering"
      BY <2>2 DEF DeliveryEnds, Becomes, DispatchTyped
    <3>2. work \in DispatchWork /\ work.at = "routing" /\ work.of = workers[w].of
      BY <1>1 DEF DispatchWork
    <3> HIDE DEF work
    <3>3. \E i \in Topic : work.of = {i}
      BY <3>1, <3>2 DEF OneNotice, AtNotice
    <3>4. WorkerChange(w, work)
      BY <3>1, <3>2, <3>3 DEF WorkerChange, AtNotice
    <3> QED BY <3>2, <3>4
  <2>3. CASE NoticeHandled(w)
    <3> DEFINE work == [NoWork EXCEPT !.at = "draining"]
    <3>1. work \in DispatchWork /\ work.at = "draining" /\ work.of = {}
      BY DEF DispatchWork, NoWork
    <3>2. WorkerChange(w, work)
      BY <2>3, <3>1 DEF NoticeHandled, WorkerChange, AtNotice
    <3> HIDE DEF work
    <3> QED BY <3>1, <3>2
  <2> QED BY <2>1, <2>2, <2>3
<1>3. /\ workers' \in [Worker -> DispatchWork] /\ OneNotice' /\ workers'[w] = work
      /\ \A v \in Worker \ {w} : workers'[v] = workers[v]
  BY <1>2, OneWorkerChanges
<1>4. UNCHANGED <<notices, cool, dispatch, noticed>> /\ workers[w].at \notin {"off", "returning"}
  BY DEF Spend, DeliveryEnds, NoticeHandled
<1>5. buckets' \in [Integration \cup {Site} ->
                       [tokens : 0..PerHour, suppressing : BOOLEAN, summary : BOOLEAN]]
  <2>1. CASE Spend(w)
    BY <2>1, BucketsTyped DEF Spend, DispatchTyped
  <2>2. CASE UNCHANGED buckets
    BY <2>2 DEF DispatchTyped
  <2> QED BY <2>1, <2>2 DEF DeliveryEnds, NoticeHandled
<1>6. NeverStranded' /\ Slots' \subseteq Slots
  BY <1>2, <1>3, <1>4 DEF NeverStranded, HoldsSlot, Slots
<1>7. \A v \in Worker, x \in Integration, i \in Topic : Telling(v, x, i)' => Telling(v, x, i)
  BY <1>2, <1>3 DEF Telling
<1>8. ClaimedByOne'
  BY <1>4, <1>7 DEF ClaimedByOne
<1>9. DispatchTyped'
  BY <1>3, <1>4, <1>5 DEF DispatchTyped
<1> QED BY <1>3, <1>6, <1>8, <1>9, SlotsGiven

(* A cooldown ends, a bucket fills, and the shutdown.                      *)
LEMMA DispatchGoesOn ==
  ASSUME DispatchInv,
         \/ \E x \in Integration, i \in Topic : CoolsDown(x, i)
         \/ \E b \in Integration \cup {Site} : Refills(b)
         \/ DispatchShutdown \/ ShutdownReturns \/ UNCHANGED dispatchVars
  PROVE  DispatchInv'
<1> USE DEF DispatchInv
<1>1. UNCHANGED <<notices, workers, noticed>>
  BY DEF CoolsDown, Refills, DispatchShutdown, ShutdownReturns, dispatchVars
<1>2. NeverStranded' /\ OneNotice' /\ Slots' = Slots
  BY <1>1 DEF NeverStranded, HoldsSlot, Slots, OneNotice
<1>3. \A w \in Worker, x \in Integration, i \in Topic : Telling(w, x, i)' <=> Telling(w, x, i)
  BY <1>1 DEF Telling
<1>4. /\ cool' \subseteq cool
      /\ \A w \in Worker, x \in Integration, i \in Topic :
           Telling(w, x, i) /\ <<x, i>> \in cool => <<x, i>> \in cool'
  BY DEF CoolsDown, Refills, DispatchShutdown, ShutdownReturns, dispatchVars
<1>5. ClaimedByOne'
  BY <1>3, <1>4 DEF ClaimedByOne
<1>6. buckets' \in [Integration \cup {Site} ->
                       [tokens : 0..PerHour, suppressing : BOOLEAN, summary : BOOLEAN]]
  <2>1. ASSUME NEW b \in Integration \cup {Site}, Refills(b)
        PROVE  buckets' \in [Integration \cup {Site} ->
                       [tokens : 0..PerHour, suppressing : BOOLEAN, summary : BOOLEAN]]
    <3>1. buckets[b] \in [tokens : 0..PerHour, suppressing : BOOLEAN, summary : BOOLEAN]
      BY DEF DispatchTyped
    <3>2. PICK bucket \in [tokens : 0..PerHour, suppressing : BOOLEAN, summary : BOOLEAN] :
            buckets' = [buckets EXCEPT ![b] = bucket]
      <4>1. CASE buckets[b].tokens < PerHour /\ buckets' = [buckets EXCEPT ![b].tokens = @ + 1]
        <5> DEFINE bucket == [buckets[b] EXCEPT !.tokens = @ + 1]
        <5>1. bucket \in [tokens : 0..PerHour, suppressing : BOOLEAN, summary : BOOLEAN]
          BY <3>1, <4>1, DispatchAssumption
        <5>2. buckets' = [buckets EXCEPT ![b] = bucket]
          BY <4>1 DEF DispatchTyped
        <5> HIDE DEF bucket
        <5> QED BY <5>1, <5>2
      <4>2. CASE buckets' = [buckets EXCEPT ![b].summary = TRUE]
        <5> DEFINE bucket == [buckets[b] EXCEPT !.summary = TRUE]
        <5>1. bucket \in [tokens : 0..PerHour, suppressing : BOOLEAN, summary : BOOLEAN]
          BY <3>1
        <5>2. buckets' = [buckets EXCEPT ![b] = bucket]
          BY <4>2 DEF DispatchTyped
        <5> HIDE DEF bucket
        <5> QED BY <5>1, <5>2
      <4> QED BY <2>1, <4>1, <4>2 DEF Refills
    <3> QED BY <3>2 DEF DispatchTyped
  <2>2. CASE UNCHANGED buckets
    BY <2>2 DEF DispatchTyped
  <2> QED BY <2>1, <2>2 DEF CoolsDown, DispatchShutdown, ShutdownReturns, dispatchVars
<1>7. DispatchTyped'
  BY <1>1, <1>4, <1>6 DEF DispatchTyped, CoolsDown, Refills, DispatchShutdown, ShutdownReturns, dispatchVars
<1> QED BY <1>2, <1>5, <1>7

LEMMA CutKeepsDispatch ==
  ASSUME DispatchInv, ShutdownCut
  PROVE  DispatchInv'
<1> USE DEF DispatchInv, ShutdownCut
<1>1. workers' \in [Worker -> DispatchWork] /\ \A w \in Worker : workers'[w] = NoWork
  BY DEF NoWork, DispatchWork
<1>2. OneNotice' /\ NeverStranded' /\ ClaimedByOne' /\ Slots' \subseteq Slots
  BY <1>1 DEF OneNotice, AtNotice, NoWork, NeverStranded, ClaimedByOne, Telling, Slots, HoldsSlot
<1>3. DispatchTyped'
  BY <1>1, DispatchAssumption DEF DispatchTyped
<1> QED BY <1>2, <1>3, SlotsGiven

LEMMA DispatchSteps == DispatchInv /\ [DispatchNext]_dispatchVars => DispatchInv'
<1> SUFFICES ASSUME DispatchInv, [DispatchNext]_dispatchVars PROVE DispatchInv'
  OBVIOUS
<1> QED
  BY NotifyKeepsDispatch, TakeKeepsDispatch, LeavingKeepsDispatch, ClaimKeepsDispatch,
     TellingKeepsDispatch, DispatchGoesOn, CutKeepsDispatch DEF DispatchNext, WorkerSteps

(* An event that is in the queue has a worker that will come for it, so a  *)
(* shutdown that has returned leaves none behind; no two workers tell one  *)
(* integration of one issue at the same time; no more than DispatchSlots   *)
(* of them have a slot (issue_dispatch.go): for any number of workers,     *)
(* integrations and issues, also when a shutdown cuts them off.            *)
THEOREM DispatchTheorem == DispatchSpec => [](DispatchTypeOK /\ DispatchSound)
<1>1. DispatchInv => DispatchTypeOK /\ DispatchSound
  <2> SUFFICES ASSUME DispatchInv PROVE DispatchTypeOK /\ DispatchSound
    OBVIOUS
  <2> USE DEF DispatchInv
  <2>1. ASSUME NEW w \in Worker
        PROVE  /\ workers[w].at \in {"off", "draining", "routing", "claimed", "delivering", "returning"}
               /\ workers[w].at \in {"routing", "claimed", "delivering"} <=> workers[w].of # {}
               /\ workers[w].of \subseteq Topic /\ workers[w].todo \subseteq Integration
    <3>1. workers[w] \in DispatchWork
      BY DEF DispatchTyped
    <3>2. workers[w].at \in {"routing", "claimed", "delivering"} <=> workers[w].of # {}
      BY DEF OneNotice, AtNotice
    <3> QED BY <3>1, <3>2 DEF DispatchWork
  <2>2. \A b \in Integration \cup {Site} : buckets[b].tokens \in 0..PerHour
    BY DEF DispatchTyped
  <2>3. DispatchTypeOK
    BY <2>1, <2>2 DEF DispatchTypeOK, DispatchTyped, Slots
  <2>4. ToldOnce
    <3> SUFFICES ASSUME NEW w \in Worker, NEW v \in Worker, NEW x \in Integration, NEW i \in Topic,
                        TellsOf(w, x, i), TellsOf(v, x, i)
                 PROVE  w = v
      BY DEF ToldOnce
    <3>1. Telling(w, x, i) /\ Telling(v, x, i)
      BY DEF Telling, TellsOf
    <3> QED BY <3>1 DEF ClaimedByOne
  <2> QED BY <2>3, <2>4 DEF DispatchSound
<1> QED BY <1>1, DispatchInitially, DispatchSteps, PTL DEF DispatchSpec

-----------------------------------------------------------------------------
(***************************************************************************)
(* The issue alert emitter.                                                *)
(***************************************************************************)

EmEventSet == 1..MaxEmEvents

EmFlight == [at : {"idle", "routed", "built"}, event : 0..MaxEmEvents, hooks : SUBSET EmHook,
             seq : 0..MaxEmEvents, seen : SUBSET EmEventSet, taken : 0..MaxEmTime]

EmIntent == [hook : EmHook, event : EmEventSet, seq : 0..MaxEmEvents, epoch : Nat,
             seen : SUBSET EmEventSet]

EmTyped ==
  /\ emTime \in 0..MaxEmTime
  /\ emEvents \in Seq([issue : EmIssue, at : 0..MaxEmTime]) /\ Len(emEvents) =< MaxEmEvents
  /\ emLanded \subseteq DOMAIN emEvents
  /\ emQueue \in Seq(EmEventSet) /\ Len(emQueue) =< EmQueueSize
  /\ emDropped \in Nat /\ emEmitted \in Nat /\ emEpoch \in Nat
  /\ emDrain \in EmFlight /\ emSeq \in [EmIssue -> Nat]
  /\ emIntents \subseteq EmIntent /\ emRun \in {"running", "stopping", "stopped"}

\* The moments of the events rise, and a row that is yet to land is not due.
EmClocked ==
  /\ \A n \in DOMAIN emEvents :
       /\ emEvents[n].at =< emTime
       /\ \A m \in DOMAIN emEvents : n =< m => emEvents[n].at =< emEvents[m].at
       /\ n \notin emLanded => emTime < emEvents[n].at + EmSettle

\* The drain comes after what the outbox has, the queue after the drain.
EmQueuedInOrder ==
  /\ \A i \in DOMAIN emQueue :
       /\ emQueue[i] \in DOMAIN emEvents
       /\ \A j \in DOMAIN emQueue : i < j => emQueue[i] < emQueue[j]
       /\ emDrain.at # "idle" => emDrain.event < emQueue[i]
       /\ \A p \in emIntents : p.event < emQueue[i]
  /\ emDrain.at # "idle" =>
       /\ emDrain.event \in DOMAIN emEvents
       /\ \A p \in emIntents :
            p.event =< emDrain.event /\ (emDrain.at = "routed" => p.event # emDrain.event)
  /\ \A p \in emIntents : p.event \in DOMAIN emEvents

\* A number was given, or the numbers were started again, for an event that
\* has come to be read.
EmToRead == IF emDrain.at = "routed" THEN 1 ELSE 0

EmNumbersSpent ==
  /\ emEpoch + EmToRead =< emEmitted
  /\ \A i \in EmIssue : emEpoch + emSeq[i] + EmToRead =< emEmitted

EmSeenRight(seen, n) ==
  seen = {n} \/ \A m \in 1..n : emEvents[m].issue = emEvents[n].issue => m \in seen

\* What the drain has built, and what the outbox was handed before it.
EmNumbersRise ==
  /\ emDrain.at = "built" =>
       /\ emDrain.seq = emSeq[emEvents[emDrain.event].issue]
       /\ EmSeenRight(emDrain.seen, emDrain.event)
       /\ \A p \in emIntents :
            /\ p.event = emDrain.event => p.seq = emDrain.seq /\ p.seen = emDrain.seen
            /\ p.event < emDrain.event /\ p.epoch = emEpoch
                 /\ emEvents[p.event].issue = emEvents[emDrain.event].issue => p.seq < emDrain.seq
  /\ \A p \in emIntents :
       /\ p.epoch =< emEpoch /\ EmSeenRight(p.seen, p.event)
       /\ p.epoch = emEpoch => p.seq =< emSeq[emEvents[p.event].issue]

EmInv ==
  /\ EmTyped /\ EmClocked /\ EmQueuedInOrder /\ EmNumbersSpent /\ EmNumbersRise
  /\ EmAccounted /\ EmOnTime /\ EmOrdered

LEMMA EmInitially == EmInit => EmInv
<1> SUFFICES ASSUME EmInit PROVE EmInv
  OBVIOUS
<1> USE EmAssumption DEF EmInit
<1>1. EmTyped
  BY DEF EmTyped, EmNothing, EmFlight, EmEventSet
<1>2. EmClocked /\ EmQueuedInOrder /\ EmNumbersSpent /\ EmNumbersRise
  BY DEF EmClocked, EmQueuedInOrder, EmNumbersSpent, EmToRead, EmNumbersRise, EmNothing
<1>3. EmAccounted /\ EmOrdered
  BY DEF EmAccounted, EmOrdered
<1>4. EmOnTime
  BY DEF EmOnTime, EmNothing, ToSet
<1> QED BY <1>1, <1>2, <1>3, <1>4 DEF EmInv

(* What is waiting, by index: the elements of the queue and the event in   *)
(* flight.                                                                 *)
LEMMA EmOnTimeIs ==
  ASSUME EmTyped
  PROVE  EmOnTime <=>
           (emRun = "running" =>
              /\ \A i \in DOMAIN emQueue : emTime =< emEvents[emQueue[i]].at + EmSettle
              /\ emDrain.at # "idle" => emTime =< emEvents[emDrain.event].at + EmSettle)
BY DEF EmOnTime, ToSet

LEMMA EmEventsTyped ==
  ASSUME EmTyped
  PROVE  /\ Len(emEvents) \in Nat /\ DOMAIN emEvents = 1..Len(emEvents)
         /\ DOMAIN emEvents \subseteq EmEventSet
         /\ \A n \in DOMAIN emEvents : emEvents[n].issue \in EmIssue /\ emEvents[n].at \in 0..MaxEmTime
<1>1. emEvents \in Seq([issue : EmIssue, at : 0..MaxEmTime]) /\ Len(emEvents) =< MaxEmEvents
  BY DEF EmTyped
<1>2. Len(emEvents) \in Nat /\ DOMAIN emEvents = 1..Len(emEvents)
  BY <1>1
<1> DEFINE Event == [issue : EmIssue, at : 0..MaxEmTime]
<1>3. emEvents \in Seq(Event)
  BY <1>1
<1>4. \A e \in Event : e.issue \in EmIssue /\ e.at \in 0..MaxEmTime
  OBVIOUS
<1> HIDE DEF Event
<1>5. \A n \in DOMAIN emEvents : emEvents[n] \in Event
  BY <1>2, <1>3, ElementOfSeq
<1>6. DOMAIN emEvents \subseteq EmEventSet
  BY <1>1, <1>2, EmAssumption DEF EmEventSet
<1> QED BY <1>2, <1>4, <1>5, <1>6

(* Another event keeps those before it.                                    *)
LEMMA EmNotifyAppends ==
  ASSUME EmTyped, NEW issue \in EmIssue, EmNotify(issue)
  PROVE  /\ emEvents' \in Seq([issue : EmIssue, at : 0..MaxEmTime])
         /\ Len(emEvents') = Len(emEvents) + 1 /\ Len(emEvents') =< MaxEmEvents
         /\ DOMAIN emEvents' = DOMAIN emEvents \cup {Len(emEvents) + 1}
         /\ emEvents'[Len(emEvents) + 1].at = emTime
         /\ \A n \in DOMAIN emEvents : emEvents'[n] = emEvents[n]
<1> DEFINE new == [issue |-> issue, at |-> emTime]
<1>1. emEvents' = Append(emEvents, new) /\ Len(emEvents) < MaxEmEvents
  BY DEF EmNotify
<1>2. new \in [issue : EmIssue, at : 0..MaxEmTime] /\ new.at = emTime
  BY DEF EmTyped
<1> HIDE DEF new
<1>3. emEvents \in Seq([issue : EmIssue, at : 0..MaxEmTime])
  BY DEF EmTyped
<1>4. Len(emEvents) \in Nat /\ DOMAIN emEvents = 1..Len(emEvents)
  BY EmEventsTyped
<1>5. /\ emEvents' \in Seq([issue : EmIssue, at : 0..MaxEmTime]) /\ Len(emEvents') = Len(emEvents) + 1
      /\ emEvents'[Len(emEvents) + 1] = new
      /\ \A n \in 1..Len(emEvents) : emEvents'[n] = emEvents[n]
  BY <1>1, <1>2, <1>3, AppendProperties
<1>6. DOMAIN emEvents' = 1..Len(emEvents) + 1
  BY <1>5
<1>7. Len(emEvents) + 1 =< MaxEmEvents
  BY <1>1, <1>4, EmAssumption
<1>8. 1..Len(emEvents) + 1 = 1..Len(emEvents) \cup {Len(emEvents) + 1}
  BY <1>4
<1> QED BY <1>2, <1>4, <1>5, <1>6, <1>7, <1>8

\* The queue takes it at its end, or drops it with a count.
LEMMA EmNotifyQueues ==
  ASSUME EmTyped, NEW issue \in EmIssue, EmNotify(issue)
  PROVE  /\ emQueue' \in Seq(EmEventSet) /\ Len(emQueue') =< EmQueueSize /\ emDropped' \in Nat
         /\ emDropped' + Len(emQueue') = emDropped + Len(emQueue) + 1
         /\ \/ UNCHANGED emQueue
            \/ /\ DOMAIN emQueue' = DOMAIN emQueue \cup {Len(emQueue) + 1}
               /\ \A i \in DOMAIN emQueue : emQueue'[i] = emQueue[i]
               /\ emQueue'[Len(emQueue) + 1] = Len(emEvents) + 1
<1> DEFINE n == Len(emEvents) + 1
<1>1. emQueue \in Seq(EmEventSet) /\ Len(emQueue) \in Nat /\ Len(emQueue) =< EmQueueSize /\ emDropped \in Nat
      /\ DOMAIN emQueue = 1..Len(emQueue)
  BY DEF EmTyped
<1>2. n \in EmEventSet
  BY EmEventsTyped, EmNotifyAppends DEF EmEventSet
<1>3. EmAdmits(n)
  BY DEF EmNotify
<1> HIDE DEF n
<1>4. CASE Len(emQueue) < EmQueueSize
  <2>1. emQueue' = Append(emQueue, n) /\ emDropped' = emDropped
    BY <1>3, <1>4 DEF EmAdmits
  <2>2. /\ emQueue' \in Seq(EmEventSet) /\ Len(emQueue') = Len(emQueue) + 1
        /\ emQueue'[Len(emQueue) + 1] = n /\ \A i \in 1..Len(emQueue) : emQueue'[i] = emQueue[i]
    BY <1>1, <1>2, <2>1, AppendProperties
  <2>3. DOMAIN emQueue' = 1..Len(emQueue) + 1
    BY <2>2
  <2>4. 1..Len(emQueue) + 1 = 1..Len(emQueue) \cup {Len(emQueue) + 1}
    BY <1>1
  <2>5. Len(emQueue) + 1 =< EmQueueSize
    <3>1. EmQueueSize \in Nat
      BY EmAssumption
    <3> QED BY <1>1, <1>4, <3>1
  <2>6. DOMAIN emQueue' = DOMAIN emQueue \cup {Len(emQueue) + 1}
    BY <1>1, <2>3, <2>4
  <2>7. emQueue'[Len(emQueue) + 1] = Len(emEvents) + 1 /\ \A i \in DOMAIN emQueue : emQueue'[i] = emQueue[i]
    BY <1>1, <2>2 DEF n
  <2>8. emDropped' + Len(emQueue') = emDropped + Len(emQueue) + 1
    BY <1>1, <2>1, <2>2
  <2>9. emQueue' \in Seq(EmEventSet) /\ Len(emQueue') =< EmQueueSize /\ emDropped' \in Nat
    BY <1>1, <2>1, <2>2, <2>5
  <2> QED BY <2>6, <2>7, <2>8, <2>9
<1>5. CASE ~(Len(emQueue) < EmQueueSize)
  BY <1>1, <1>3, <1>5 DEF EmAdmits
<1> QED BY <1>4, <1>5

LEMMA EmNotifyKeeps ==
  ASSUME EmInv, NEW issue \in EmIssue, EmNotify(issue)
  PROVE  EmInv'
<1> DEFINE new == Len(emEvents) + 1
<1>0. EmTyped /\ EmClocked /\ EmQueuedInOrder /\ EmNumbersSpent /\ EmNumbersRise
      /\ EmAccounted /\ EmOnTime /\ EmOrdered
  BY DEF EmInv
<1>1. UNCHANGED <<emTime, emLanded, emEmitted, emDrain, emSeq, emEpoch, emIntents, emRun>>
  BY DEF EmNotify
<1>2. /\ emEvents' \in Seq([issue : EmIssue, at : 0..MaxEmTime])
      /\ Len(emEvents') = new /\ new =< MaxEmEvents
      /\ DOMAIN emEvents' = DOMAIN emEvents \cup {new} /\ emEvents'[new].at = emTime
      /\ \A n \in DOMAIN emEvents : emEvents'[n] = emEvents[n]
  BY <1>0, EmNotifyAppends
<1>3. /\ emQueue' \in Seq(EmEventSet) /\ Len(emQueue') =< EmQueueSize /\ emDropped' \in Nat
      /\ emDropped' + Len(emQueue') = emDropped + Len(emQueue) + 1
  BY <1>0, EmNotifyQueues
<1>4. \/ UNCHANGED emQueue
      \/ /\ DOMAIN emQueue' = DOMAIN emQueue \cup {Len(emQueue) + 1}
         /\ \A i \in DOMAIN emQueue : emQueue'[i] = emQueue[i]
         /\ emQueue'[Len(emQueue) + 1] = new
  BY <1>0, EmNotifyQueues
<1>5. /\ Len(emEvents) \in Nat /\ DOMAIN emEvents = 1..Len(emEvents)
      /\ \A n \in DOMAIN emEvents : n \in Nat /\ n < new /\ emEvents[n].at \in Nat
      /\ Len(emQueue) \in Nat /\ DOMAIN emQueue = 1..Len(emQueue) /\ emTime \in Nat /\ new \in Nat
  BY <1>0, EmEventsTyped, EmAssumption DEF EmTyped
<1> HIDE DEF new
<1>6. EmTyped'
  BY <1>0, <1>1, <1>2, <1>3 DEF EmTyped
<1>7. EmAccounted'
  <2>1. Len(emEvents) = emDropped + Len(emQueue) + emEmitted
    BY <1>0 DEF EmAccounted
  <2>2. Len(emEvents') = Len(emEvents) + 1 /\ Len(emQueue') \in Nat /\ emDropped \in Nat /\ emEmitted \in Nat
    BY <1>0, <1>2, <1>3 DEF new, EmTyped
  <2> QED BY <1>1, <1>3, <1>5, <2>1, <2>2 DEF EmAccounted
<1>8. EmClocked'
  <2>1. \A n \in DOMAIN emEvents : emEvents[n].at =< emTime
    BY <1>0 DEF EmClocked
  <2>2. \A n \in DOMAIN emEvents : n \notin emLanded => emTime < emEvents[n].at + EmSettle
    BY <1>0 DEF EmClocked
  <2>3. \A n, m \in DOMAIN emEvents : n =< m => emEvents[n].at =< emEvents[m].at
    BY <1>0 DEF EmClocked
  <2>4. emTime < emTime + EmSettle /\ emTime =< emTime
    BY <1>5, EmAssumption
  <2>5. ASSUME NEW n \in DOMAIN emEvents' PROVE emEvents'[n].at =< emTime'
    BY <1>1, <1>2, <2>1, <2>4
  <2>6. ASSUME NEW n \in DOMAIN emEvents', n \notin emLanded' PROVE emTime' < emEvents'[n].at + EmSettle
    BY <1>1, <1>2, <2>2, <2>4, <2>6
  <2>7. ASSUME NEW n \in DOMAIN emEvents', NEW m \in DOMAIN emEvents', n =< m
        PROVE  emEvents'[n].at =< emEvents'[m].at
    <3>1. CASE m = new
      BY <1>1, <1>2, <2>5, <3>1
    <3>2. CASE m # new
      <4>1. m \in DOMAIN emEvents /\ n \in DOMAIN emEvents
        BY <1>2, <1>5, <2>7, <3>2
      <4> QED BY <1>2, <2>3, <2>7, <4>1
    <3> QED BY <3>1, <3>2
  <2> QED BY <2>5, <2>6, <2>7 DEF EmClocked
<1>9. EmQueuedInOrder'
  <2>1. /\ \A p \in emIntents : p.event \in DOMAIN emEvents
        /\ emDrain.at # "idle" => emDrain.event \in DOMAIN emEvents
        /\ \A i \in DOMAIN emQueue : emQueue[i] \in DOMAIN emEvents
    BY <1>0 DEF EmQueuedInOrder
  <2>2. ASSUME NEW i \in DOMAIN emQueue'
        PROVE  /\ emQueue'[i] \in DOMAIN emEvents'
               /\ \A j \in DOMAIN emQueue' : i < j => emQueue'[i] < emQueue'[j]
               /\ emDrain.at # "idle" => emDrain.event < emQueue'[i]
               /\ \A p \in emIntents : p.event < emQueue'[i]
    <3>1. CASE emQueue' = emQueue
      BY <1>0, <1>2, <3>1 DEF EmQueuedInOrder
    <3>2. CASE emQueue' # emQueue
      <4>1. DOMAIN emQueue' = DOMAIN emQueue \cup {Len(emQueue) + 1}
            /\ emQueue'[Len(emQueue) + 1] = new
            /\ \A k \in DOMAIN emQueue : emQueue'[k] = emQueue[k] /\ k < Len(emQueue) + 1
        BY <1>4, <1>5, <3>2
      <4>2. CASE i = Len(emQueue) + 1
        <5>1. \A j \in DOMAIN emQueue' : ~(i < j)
          BY <1>5, <4>1, <4>2
        <5> QED BY <1>2, <1>5, <2>1, <4>1, <4>2, <5>1
      <4>3. CASE i # Len(emQueue) + 1
        <5>1. i \in DOMAIN emQueue /\ emQueue'[i] = emQueue[i]
          BY <4>1, <4>3
        <5>2. /\ \A j \in DOMAIN emQueue : i < j => emQueue[i] < emQueue[j]
              /\ emDrain.at # "idle" => emDrain.event < emQueue[i]
              /\ \A p \in emIntents : p.event < emQueue[i]
          BY <1>0, <5>1 DEF EmQueuedInOrder
        <5>3. emQueue[i] < new /\ emQueue[i] \in DOMAIN emEvents
          BY <1>5, <2>1, <5>1
        <5> QED BY <1>2, <4>1, <5>1, <5>2, <5>3
      <4> QED BY <4>2, <4>3
    <3> QED BY <3>1, <3>2
  <2>3. emDrain.at # "idle" =>
          \A p \in emIntents : p.event =< emDrain.event /\ (emDrain.at = "routed" => p.event # emDrain.event)
    BY <1>0 DEF EmQueuedInOrder
  <2> QED BY <1>1, <1>2, <2>1, <2>2, <2>3 DEF EmQueuedInOrder
<1>10. EmNumbersSpent'
  BY <1>0, <1>1 DEF EmNumbersSpent, EmToRead
<1>11. \A n \in DOMAIN emEvents : \A seen : EmSeenRight(seen, n) => EmSeenRight(seen, n)'
  <2> SUFFICES ASSUME NEW n \in DOMAIN emEvents, NEW seen, EmSeenRight(seen, n),
                      NEW m \in 1..n, emEvents'[m].issue = emEvents'[n].issue, seen # {n}
               PROVE  m \in seen
    BY DEF EmSeenRight
  <2>1. m \in DOMAIN emEvents
    BY <1>5
  <2> QED BY <1>2, <2>1 DEF EmSeenRight
<1>12. EmNumbersRise' /\ EmOrdered'
  <2>1. \A p \in emIntents : emEvents'[p.event] = emEvents[p.event] /\ p.event \in DOMAIN emEvents
    BY <1>0, <1>2 DEF EmQueuedInOrder
  <2>2. emDrain.at # "idle" => emEvents'[emDrain.event] = emEvents[emDrain.event]
                               /\ emDrain.event \in DOMAIN emEvents
    BY <1>0, <1>2 DEF EmQueuedInOrder
  <2>3. EmOrdered'
    BY <1>0, <1>1, <2>1 DEF EmOrdered
  <2>4. EmNumbersRise'
    BY <1>0, <1>1, <1>11, <2>1, <2>2 DEF EmNumbersRise
  <2> QED BY <2>3, <2>4
<1>13. EmOnTime'
  <2> SUFFICES ASSUME emRun' = "running"
               PROVE  /\ \A i \in DOMAIN emQueue' : emTime =< emEvents'[emQueue'[i]].at + EmSettle
                      /\ emDrain.at # "idle" => emTime =< emEvents'[emDrain.event].at + EmSettle
    BY <1>1, <1>6, EmOnTimeIs DEF EmOnTime, ToSet
  <2>1. /\ \A i \in DOMAIN emQueue : emTime =< emEvents[emQueue[i]].at + EmSettle
        /\ emDrain.at # "idle" => emTime =< emEvents[emDrain.event].at + EmSettle
    BY <1>0, <1>1, EmOnTimeIs
  <2>2. /\ \A i \in DOMAIN emQueue : emEvents'[emQueue[i]] = emEvents[emQueue[i]]
        /\ emDrain.at # "idle" => emEvents'[emDrain.event] = emEvents[emDrain.event]
    BY <1>0, <1>2 DEF EmQueuedInOrder
  <2>3. emTime =< emEvents'[new].at + EmSettle
    BY <1>2, <1>5, EmAssumption
  <2> QED BY <1>4, <2>1, <2>2, <2>3
<1> QED BY <1>6, <1>7, <1>8, <1>9, <1>10, <1>12, <1>13 DEF EmInv

LEMMA EmLandKeeps ==
  ASSUME EmInv, NEW n \in DOMAIN emEvents \ emLanded, EmLand(n)
  PROVE  EmInv'
<1>1. /\ UNCHANGED <<emTime, emEvents, emQueue, emDropped, emEmitted, emDrain, emSeq, emEpoch, emIntents, emRun>>
      /\ emLanded' = emLanded \cup {n}
  BY DEF EmLand
<1>2. EmTyped' /\ EmClocked'
  BY <1>1 DEF EmInv, EmTyped, EmClocked
<1>3. EmQueuedInOrder' /\ EmNumbersSpent' /\ EmNumbersRise' /\ EmAccounted' /\ EmOnTime' /\ EmOrdered'
  BY <1>1 DEF EmInv, EmQueuedInOrder, EmNumbersSpent, EmToRead, EmNumbersRise, EmSeenRight, EmAccounted, EmOnTime,
              EmOrdered
<1> QED BY <1>2, <1>3 DEF EmInv

LEMMA EmTakeKeeps ==
  ASSUME EmInv, EmTake
  PROVE  EmInv'
<1>0. EmTyped /\ EmClocked /\ EmQueuedInOrder /\ EmNumbersSpent /\ EmNumbersRise
      /\ EmAccounted /\ EmOnTime /\ EmOrdered
  BY DEF EmInv
<1>1. /\ UNCHANGED <<emTime, emEvents, emLanded, emDropped, emSeq, emEpoch, emIntents, emRun>>
      /\ emQueue' = Tail(emQueue) /\ emEmitted' = emEmitted + 1
      /\ emDrain.at = "idle" /\ emQueue # <<>> /\ emRun # "stopped"
  BY DEF EmTake
<1>2. /\ emQueue \in Seq(EmEventSet) /\ Len(emQueue) =< EmQueueSize /\ Len(emQueue) \in Nat
      /\ DOMAIN emQueue = 1..Len(emQueue) /\ emEmitted \in Nat /\ emDropped \in Nat
  BY <1>0 DEF EmTyped
<1>3. /\ Tail(emQueue) \in Seq(EmEventSet) /\ Len(Tail(emQueue)) = Len(emQueue) - 1
      /\ \A i \in 1..Len(Tail(emQueue)) : Tail(emQueue)[i] = emQueue[i + 1]
      /\ Head(emQueue) = emQueue[1]
  BY <1>1, <1>2, HeadTailProperties
<1>4. Len(emQueue) >= 1
  BY <1>1, <1>2, EmptySeq
<1>5. /\ DOMAIN emQueue' = 1..(Len(emQueue) - 1) /\ 1 \in DOMAIN emQueue
      /\ \A i \in DOMAIN emQueue' : i + 1 \in DOMAIN emQueue /\ 1 < i + 1 /\ emQueue'[i] = emQueue[i + 1]
  <2>1. DOMAIN emQueue' = 1..(Len(emQueue) - 1)
    BY <1>1, <1>3
  <2>2. \A i \in 1..(Len(emQueue) - 1) : i + 1 \in 1..Len(emQueue) /\ 1 < i + 1
    BY <1>2
  <2>3. \A i \in 1..(Len(emQueue) - 1) : emQueue'[i] = emQueue[i + 1]
    BY <1>1, <1>3
  <2>4. 1 \in DOMAIN emQueue
    BY <1>2, <1>4
  <2> QED BY <1>2, <2>1, <2>2, <2>3, <2>4
<1>6. emDrain' = EmNothing \/
      \E hooks \in SUBSET EmHook :
        emDrain' = [EmNothing EXCEPT !.at = "routed", !.event = Head(emQueue), !.hooks = hooks, !.taken = emTime]
  BY DEF EmTake
<1>7. \/ emDrain'.at = "idle"
      \/ emDrain'.at = "routed" /\ emDrain'.event = emQueue[1]
  <2>1. CASE emDrain' = EmNothing
    BY <2>1 DEF EmNothing
  <2>2. CASE emDrain' # EmNothing
    <3>1. PICK hooks \in SUBSET EmHook :
            emDrain' = [EmNothing EXCEPT !.at = "routed", !.event = Head(emQueue), !.hooks = hooks, !.taken = emTime]
      BY <1>6, <2>2
    <3>2. emDrain'.at = "routed" /\ emDrain'.event = Head(emQueue)
      BY <3>1, Zenon DEF EmNothing
    <3> QED BY <1>3, <3>2
  <2> QED BY <2>1, <2>2
<1>8. emQueue[1] \in EmEventSet /\ emTime \in 0..MaxEmTime /\ EmEventSet \subseteq 0..MaxEmEvents
  BY <1>0, <1>2, <1>5, ElementOfSeq, EmAssumption DEF EmTyped, EmEventSet
<1>9. emDrain' \in EmFlight
  <2>1. EmNothing \in EmFlight
    BY EmAssumption DEF EmNothing, EmFlight
  <2>2. ASSUME NEW hooks \in SUBSET EmHook
        PROVE  [EmNothing EXCEPT !.at = "routed", !.event = Head(emQueue), !.hooks = hooks, !.taken = emTime] \in EmFlight
    <3> DEFINE head == Head(emQueue)
    <3>1. head \in EmEventSet
      BY <1>3, <1>8
    <3> HIDE DEF head
    <3>0. head \in 0..MaxEmEvents /\ 0 \in 0..MaxEmEvents
      BY <1>8, <3>1, EmAssumption
    <3>3. [EmNothing EXCEPT !.at = "routed", !.event = head, !.hooks = hooks, !.taken = emTime] \in EmFlight
      BY <1>8, <2>1, <3>0 DEF EmFlight
    <3> QED BY <3>3 DEF head
  <2> QED BY <1>6, <2>1, <2>2
<1>10. EmTyped'
  <2>1. emQueue' \in Seq(EmEventSet) /\ Len(emQueue') =< EmQueueSize
    <3>1. Len(emQueue) - 1 =< EmQueueSize
      BY <1>2, EmAssumption
    <3> QED BY <1>1, <1>3, <3>1
  <2>2. emEmitted' \in Nat
    BY <1>1, <1>2
  <2> QED BY <1>0, <1>1, <1>9, <2>1, <2>2 DEF EmTyped
<1>11. EmClocked' /\ EmOrdered'
  BY <1>0, <1>1 DEF EmClocked, EmOrdered
<1>12. EmAccounted'
  <2>1. Len(emQueue') = Len(emQueue) - 1
    BY <1>1, <1>3
  <2> QED BY <1>0, <1>1, <1>2, <2>1 DEF EmAccounted
<1>13. EmQueuedInOrder'
  <2>1. /\ \A i \in DOMAIN emQueue : emQueue[i] \in DOMAIN emEvents
        /\ \A i, j \in DOMAIN emQueue : i < j => emQueue[i] < emQueue[j]
        /\ \A i \in DOMAIN emQueue : \A p \in emIntents : p.event < emQueue[i]
        /\ \A p \in emIntents : p.event \in DOMAIN emEvents
    BY <1>0 DEF EmQueuedInOrder
  <2>2. DOMAIN emEvents \subseteq Nat
    BY <1>0, EmEventsTyped
  <2>3. ASSUME NEW i \in DOMAIN emQueue', NEW j \in DOMAIN emQueue', i < j PROVE emQueue'[i] < emQueue'[j]
    <3>1. i + 1 < j + 1
      BY <1>2, <1>5, <2>3
    <3> QED BY <1>5, <2>1, <3>1
  <2>4. ASSUME NEW i \in DOMAIN emQueue'
        PROVE  emQueue'[i] \in DOMAIN emEvents /\ emQueue[1] < emQueue'[i] /\ \A p \in emIntents : p.event < emQueue'[i]
    BY <1>5, <2>1
  <2>5. \A p \in emIntents : p.event =< emQueue[1] /\ p.event # emQueue[1]
    BY <1>5, <2>1, <2>2
  <2> QED BY <1>1, <1>5, <1>7, <2>1, <2>3, <2>4, <2>5 DEF EmQueuedInOrder
<1>14. EmNumbersSpent'
  <2>1. EmToRead = 0 /\ EmToRead' \in 0..1
    BY <1>1 DEF EmToRead
  <2>2. emEpoch \in Nat /\ \A i \in EmIssue : emSeq[i] \in Nat
    BY <1>0 DEF EmTyped
  <2>3. emEpoch =< emEmitted /\ \A i \in EmIssue : emEpoch + emSeq[i] =< emEmitted
    BY <1>0, <2>1, <2>2 DEF EmNumbersSpent
  <2>4. emEpoch + EmToRead' =< emEmitted + 1
    <3>1. EmToRead' = 0 \/ EmToRead' = 1
      BY <2>1
    <3> QED BY <1>2, <2>2, <2>3, <3>1
  <2>5. ASSUME NEW i \in EmIssue PROVE emEpoch + emSeq[i] + EmToRead' =< emEmitted + 1
    <3>1. emSeq[i] \in Nat /\ emEpoch + emSeq[i] =< emEmitted
      BY <2>2, <2>3
    <3> QED BY <1>2, <2>1, <2>2, <3>1
  <2> QED BY <1>1, <2>4, <2>5 DEF EmNumbersSpent
<1>15. EmNumbersRise'
  BY <1>0, <1>1, <1>7 DEF EmNumbersRise, EmSeenRight
<1>16. EmOnTime'
  <2>1. emRun = "running" => \A i \in DOMAIN emQueue : emTime =< emEvents[emQueue[i]].at + EmSettle
    BY <1>0, EmOnTimeIs
  <2>2. emRun' = "running" =>
          /\ \A i \in DOMAIN emQueue' : emTime =< emEvents[emQueue'[i]].at + EmSettle
          /\ emDrain'.at # "idle" => emTime =< emEvents[emDrain'.event].at + EmSettle
    BY <1>1, <1>5, <1>7, <2>1
  <2>3. EmOnTime' <=>
          (emRun' = "running" =>
             /\ \A i \in DOMAIN emQueue' : emTime' =< emEvents'[emQueue'[i]].at + EmSettle
             /\ emDrain'.at # "idle" => emTime' =< emEvents'[emDrain'.event].at + EmSettle)
    BY <1>10, EmOnTimeIs DEF EmOnTime, ToSet
  <2> QED BY <1>1, <2>2, <2>3
<1> QED BY <1>10, <1>11, <1>12, <1>13, <1>14, <1>15, <1>16 DEF EmInv

(* Numbers are started again only when another issue has one.              *)
LEMMA EmFullOfAnother ==
  ASSUME EmTyped, NEW issue \in EmIssue, EmFull(issue)
  PROVE  \E i \in EmIssue : emSeq[i] > 0
<1> SUFFICES ASSUME \A i \in EmIssue : ~(emSeq[i] > 0) PROVE FALSE
  OBVIOUS
<1>1. {i \in EmIssue : emSeq[i] > 0} \cup {issue} = {issue}
  OBVIOUS
<1>2. Cardinality({issue}) = 1
  BY FS_Singleton
<1>3. EmSeqLimit \in Nat \ {0}
  BY EmAssumption
<1> QED BY <1>1, <1>2, <1>3 DEF EmFull

LEMMA EmEmittedBound ==
  ASSUME EmTyped, EmAccounted
  PROVE  emEmitted =< MaxEmEvents /\ emDropped =< MaxEmEvents
<1>1. /\ emEmitted \in Nat /\ emDropped \in Nat /\ Len(emQueue) \in Nat /\ Len(emEvents) \in Nat
      /\ Len(emEvents) =< MaxEmEvents /\ MaxEmEvents \in Nat
  BY EmAssumption DEF EmTyped
<1> QED BY <1>1 DEF EmAccounted

(* Either the numbers are started again, or the issue's goes up by one.    *)
LEMMA EmNumberedGives ==
  ASSUME EmTyped, NEW issue \in EmIssue, NEW seq, NEW epoch,
         seq = EmNumbered(issue), epoch = IF EmFull(issue) THEN emEpoch + 1 ELSE emEpoch,
         emEpoch + 1 =< emEmitted, \A i \in EmIssue : emEpoch + emSeq[i] + 1 =< emEmitted
  PROVE  /\ seq \in [EmIssue -> Nat] /\ epoch \in Nat /\ epoch =< emEmitted
         /\ \A i \in EmIssue : epoch + seq[i] =< emEmitted
         /\ \/ epoch = emEpoch + 1
            \/ /\ epoch = emEpoch /\ seq[issue] = emSeq[issue] + 1
               /\ \A i \in EmIssue : i # issue => seq[i] = emSeq[i]
<1>1. emSeq \in [EmIssue -> Nat] /\ emEpoch \in Nat /\ emEmitted \in Nat
  BY DEF EmTyped
<1>2. CASE EmFull(issue)
  <2>1. seq = [i \in EmIssue |-> IF i = issue THEN 1 ELSE 0] /\ epoch = emEpoch + 1
    BY <1>2 DEF EmNumbered
  <2>2. PICK i \in EmIssue : emSeq[i] > 0
    BY <1>2, EmFullOfAnother
  <2>3. emEpoch + 2 =< emEmitted
    <3>1. emSeq[i] \in Nat /\ emEpoch + emSeq[i] + 1 =< emEmitted
      BY <1>1
    <3> QED BY <1>1, <2>2, <3>1
  <2> QED BY <1>1, <2>1, <2>3
<1>3. CASE ~EmFull(issue)
  <2>1. seq = [emSeq EXCEPT ![issue] = @ + 1] /\ epoch = emEpoch
    BY <1>3 DEF EmNumbered
  <2>2. seq \in [EmIssue -> Nat] /\ seq[issue] = emSeq[issue] + 1
        /\ \A i \in EmIssue : i # issue => seq[i] = emSeq[i]
    BY <1>1, <2>1
  <2>3. ASSUME NEW i \in EmIssue PROVE epoch + seq[i] =< emEmitted
    <3>1. emSeq[i] \in Nat /\ emEpoch + emSeq[i] + 1 =< emEmitted
      BY <1>1
    <3>2. seq[i] = emSeq[i] + 1 \/ seq[i] = emSeq[i]
      BY <2>2
    <3> QED BY <1>1, <2>1, <3>1, <3>2
  <2>4. epoch \in Nat /\ epoch =< emEmitted
    BY <1>1, <2>1
  <2> QED BY <2>1, <2>2, <2>3, <2>4
<1> QED BY <1>2, <1>3

LEMMA EmReadKeeps ==
  ASSUME EmInv, EmRead
  PROVE  EmInv'
<1> DEFINE n == emDrain.event
           issue == emEvents[n].issue
<1>0. EmTyped /\ EmClocked /\ EmQueuedInOrder /\ EmNumbersSpent /\ EmNumbersRise
      /\ EmAccounted /\ EmOnTime /\ EmOrdered
  BY DEF EmInv
<1>1. /\ UNCHANGED <<emTime, emEvents, emLanded, emQueue, emDropped, emEmitted, emIntents, emRun>>
      /\ emDrain.at = "routed" /\ (EmSettled \/ emRun # "running")
      /\ emSeq' = EmNumbered(issue)
      /\ emEpoch' = IF EmFull(issue) THEN emEpoch + 1 ELSE emEpoch
  BY DEF EmRead
<1>2. PICK seen :
        /\ emDrain' = [emDrain EXCEPT !.at = "built", !.seq = emSeq'[issue], !.seen = seen]
        /\ \/ seen = {n}
           \/ emRun = "running" /\ seen = {m \in emLanded : emEvents[m].issue = issue}
  BY DEF EmRead
<1>3. /\ emDrain \in EmFlight
      /\ emSeq \in [EmIssue -> Nat] /\ emEpoch \in Nat /\ emEmitted \in Nat
      /\ emLanded \subseteq DOMAIN emEvents /\ emTime \in Nat
  BY <1>0, EmAssumption DEF EmTyped
<1>4. n \in DOMAIN emEvents /\ DOMAIN emEvents \subseteq EmEventSet /\ DOMAIN emEvents = 1..Len(emEvents)
      /\ Len(emEvents) \in Nat
      /\ \A m \in DOMAIN emEvents : emEvents[m].at \in Nat /\ emEvents[m].issue \in EmIssue
  BY <1>0, <1>1, EmEventsTyped, EmAssumption DEF EmQueuedInOrder
<1>5. issue \in EmIssue
  BY <1>4
<1>6. seen \subseteq EmEventSet
  BY <1>2, <1>3, <1>4
<1>7. /\ emDrain'.at = "built" /\ emDrain'.event = n /\ emDrain'.seq = emSeq'[issue] /\ emDrain'.seen = seen
      /\ emDrain'.hooks = emDrain.hooks /\ emDrain'.taken = emDrain.taken
  BY <1>2, <1>3 DEF EmFlight
<1>8. EmSeenRight(seen, n)
  <2>1. CASE seen = {n}
    BY <2>1 DEF EmSeenRight
  <2>2. CASE emRun = "running" /\ seen = {m \in emLanded : emEvents[m].issue = issue}
    <3>1. emTime >= emEvents[n].at + EmSettle
      BY <1>1, <2>2 DEF EmSettled, EmDeadline
    <3>2. ASSUME NEW m \in 1..n, emEvents[m].issue = issue PROVE m \in seen
      <4>1. m \in DOMAIN emEvents /\ m =< n
        BY <1>4
      <4>2. emEvents[m].at =< emEvents[n].at /\ (m \notin emLanded => emTime < emEvents[m].at + EmSettle)
        BY <1>0, <1>4, <4>1 DEF EmClocked
      <4>3. EmSettle \in Nat /\ emEvents[m].at \in Nat /\ emEvents[n].at \in Nat
        BY <1>4, <4>1, EmAssumption
      <4>4. m \in emLanded
        BY <1>3, <3>1, <4>2, <4>3
      <4> QED BY <2>2, <3>2, <4>4
    <3> QED BY <3>2 DEF EmSeenRight
  <2> QED BY <1>2, <2>1, <2>2
<1>9. /\ emEpoch + 1 =< emEmitted
      /\ \A i \in EmIssue : emSeq[i] \in Nat /\ emEpoch + emSeq[i] + 1 =< emEmitted
  BY <1>0, <1>1, <1>3 DEF EmNumbersSpent, EmToRead
<1>10. /\ emSeq' \in [EmIssue -> Nat] /\ emEpoch' \in Nat /\ emEpoch' =< emEmitted
       /\ \A i \in EmIssue : emEpoch' + emSeq'[i] =< emEmitted
       /\ \/ emEpoch' = emEpoch + 1
          \/ /\ emEpoch' = emEpoch /\ emSeq'[issue] = emSeq[issue] + 1
             /\ \A i \in EmIssue : i # issue => emSeq'[i] = emSeq[i]
  <2>1. \A i \in EmIssue : emEpoch + emSeq[i] + 1 =< emEmitted
    BY <1>9
  <2> HIDE DEF issue
  <2>2. PICK seq, epoch : seq = emSeq' /\ epoch = emEpoch'
    OBVIOUS
  <2>3. seq = EmNumbered(issue) /\ epoch = IF EmFull(issue) THEN emEpoch + 1 ELSE emEpoch
    BY <1>1, <2>2
  <2>4. /\ seq \in [EmIssue -> Nat] /\ epoch \in Nat /\ epoch =< emEmitted
        /\ \A i \in EmIssue : epoch + seq[i] =< emEmitted
        /\ \/ epoch = emEpoch + 1
           \/ /\ epoch = emEpoch /\ seq[issue] = emSeq[issue] + 1
              /\ \A i \in EmIssue : i # issue => seq[i] = emSeq[i]
    BY <1>0, <1>5, <1>9, <2>1, <2>3, EmNumberedGives
  <2> QED BY <2>2, <2>4
<1> HIDE DEF n, issue
<1>11. EmTyped'
  <2>1. emSeq'[issue] \in 0..MaxEmEvents
    <3>1. emSeq'[issue] \in Nat /\ emEpoch' + emSeq'[issue] =< emEmitted /\ emEpoch' \in Nat
      BY <1>5, <1>10
    <3>2. emEmitted =< MaxEmEvents /\ MaxEmEvents \in Nat
      BY <1>0, EmEmittedBound, EmAssumption
    <3> QED BY <1>3, <3>1, <3>2
  <2>2. emDrain' \in EmFlight
    <3> DEFINE number == emSeq'[issue]
    <3>1. number \in 0..MaxEmEvents
      BY <2>1
    <3>2. emDrain' = [emDrain EXCEPT !.at = "built", !.seq = number, !.seen = seen]
      BY <1>2 DEF issue, n
    <3> HIDE DEF number
    <3> QED BY <1>3, <1>6, <3>1, <3>2 DEF EmFlight
  <2> QED BY <1>0, <1>1, <1>10, <2>2 DEF EmTyped
<1>12. EmClocked' /\ EmAccounted'
  BY <1>0, <1>1 DEF EmClocked, EmAccounted
<1>13. EmOrdered'
  BY <1>0, <1>1 DEF EmOrdered
<1>14. EmQueuedInOrder'
  BY <1>0, <1>1, <1>7 DEF EmQueuedInOrder, n
<1>15. EmNumbersSpent'
  <2>1. EmToRead' = 0
    BY <1>7 DEF EmToRead
  <2>2. \A i \in EmIssue : emSeq'[i] \in Nat
    BY <1>10
  <2>3. emEpoch' + 0 =< emEmitted'
    BY <1>1, <1>10
  <2>4. ASSUME NEW i \in EmIssue PROVE emEpoch' + emSeq'[i] + 0 =< emEmitted'
    <3>1. emSeq'[i] \in Nat /\ emEpoch' + emSeq'[i] =< emEmitted
      BY <1>10, <2>2
    <3> QED BY <1>1, <1>10, <3>1
  <2> QED BY <2>1, <2>3, <2>4 DEF EmNumbersSpent
<1>16. EmNumbersRise'
  <2>1. ASSUME NEW p \in emIntents
        PROVE  /\ p.event \in DOMAIN emEvents /\ p.event # n /\ p.epoch =< emEpoch' /\ EmSeenRight(p.seen, p.event)
               /\ p.epoch = emEpoch' => p.seq =< emSeq'[emEvents[p.event].issue]
               /\ p.epoch = emEpoch' /\ emEvents[p.event].issue = issue => p.seq < emSeq'[issue]
    <3>1. p.event \in DOMAIN emEvents /\ p.event # n
      BY <1>0, <1>1 DEF EmQueuedInOrder, n
    <3>2. p.epoch =< emEpoch /\ EmSeenRight(p.seen, p.event)
          /\ (p.epoch = emEpoch => p.seq =< emSeq[emEvents[p.event].issue])
      BY <1>0 DEF EmNumbersRise
    <3>3. p.epoch \in Nat /\ p.seq \in Nat
      BY <1>0, EmAssumption DEF EmTyped, EmIntent
    <3> DEFINE own == emEvents[p.event].issue
    <3>4. own \in EmIssue /\ emSeq[own] \in Nat /\ emSeq[issue] \in Nat
      BY <1>3, <1>4, <1>5, <3>1
    <3> HIDE DEF own
    <3>5. CASE emEpoch' = emEpoch + 1
      <4>1. p.epoch < emEpoch'
        BY <1>3, <3>2, <3>3, <3>5
      <4> QED BY <1>10, <3>1, <3>2, <3>3, <4>1
    <3>6. CASE emEpoch' = emEpoch /\ emSeq'[issue] = emSeq[issue] + 1
               /\ \A i \in EmIssue : i # issue => emSeq'[i] = emSeq[i]
      <4>1. p.epoch = emEpoch' => p.seq =< emSeq[own]
        BY <3>2, <3>6 DEF own
      <4>2. own = issue \/ emSeq'[own] = emSeq[own]
        BY <3>4, <3>6
      <4>3. p.epoch = emEpoch' => p.seq =< emSeq'[own]
        BY <3>3, <3>4, <3>6, <4>1, <4>2
      <4>4. p.epoch = emEpoch' /\ own = issue => p.seq < emSeq'[issue]
        BY <3>3, <3>4, <3>6, <4>1
      <4> QED BY <3>1, <3>2, <3>6, <4>3, <4>4 DEF own
    <3> QED BY <1>10, <3>5, <3>6
  <2>2. \A p \in emIntents' : EmSeenRight(p.seen, p.event)' /\ p.epoch =< emEpoch'
          /\ (p.epoch = emEpoch' => p.seq =< emSeq'[emEvents'[p.event].issue])
    BY <1>1, <2>1 DEF EmSeenRight
  <2>3. emDrain'.seq = emSeq'[emEvents'[emDrain'.event].issue] /\ EmSeenRight(emDrain.seen, emDrain.event)'
    BY <1>1, <1>7, <1>8 DEF EmSeenRight, issue
  <2>4. \A p \in emIntents' :
          /\ p.event # emDrain'.event
          /\ p.event < emDrain'.event /\ p.epoch = emEpoch'
               /\ emEvents'[p.event].issue = emEvents'[emDrain'.event].issue => p.seq < emDrain'.seq
    BY <1>1, <1>7, <2>1 DEF issue
  <2> QED BY <2>2, <2>3, <2>4 DEF EmNumbersRise
<1>17. EmOnTime'
  <2>1. emRun = "running" =>
          /\ \A i \in DOMAIN emQueue : emTime =< emEvents[emQueue[i]].at + EmSettle
          /\ emTime =< emEvents[n].at + EmSettle
    BY <1>0, <1>1, EmOnTimeIs DEF n
  <2>2. EmOnTime' <=>
          (emRun' = "running" =>
             /\ \A i \in DOMAIN emQueue' : emTime' =< emEvents'[emQueue'[i]].at + EmSettle
             /\ emDrain'.at # "idle" => emTime' =< emEvents'[emDrain'.event].at + EmSettle)
    BY <1>11, EmOnTimeIs DEF EmOnTime, ToSet
  <2> QED BY <1>1, <1>7, <2>1, <2>2
<1> QED BY <1>11, <1>12, <1>13, <1>14, <1>15, <1>16, <1>17 DEF EmInv

LEMMA EmEnqueueKeeps ==
  ASSUME EmInv, NEW hook \in EmHook, EmEnqueue(hook)
  PROVE  EmInv'
<1> DEFINE new == [hook |-> hook, event |-> emDrain.event, seq |-> emDrain.seq, epoch |-> emEpoch, seen |-> emDrain.seen]
<1>0. EmTyped /\ EmClocked /\ EmQueuedInOrder /\ EmNumbersSpent /\ EmNumbersRise
      /\ EmAccounted /\ EmOnTime /\ EmOrdered
  BY DEF EmInv
<1>1. /\ UNCHANGED <<emTime, emEvents, emLanded, emQueue, emDropped, emEmitted, emSeq, emEpoch, emRun>>
      /\ emDrain.at = "built" /\ hook \in emDrain.hooks
      /\ emIntents' = emIntents \/ emIntents' = emIntents \cup {new}
      /\ emDrain' = IF emDrain.hooks = {hook} THEN EmNothing ELSE [emDrain EXCEPT !.hooks = @ \ {hook}]
  BY DEF EmEnqueue
<1>2. emDrain \in EmFlight /\ emEpoch \in Nat /\ emIntents \subseteq EmIntent
  BY <1>0 DEF EmTyped
<1>3. /\ \A p \in emIntents : p.event \in DOMAIN emEvents /\ p.event =< emDrain.event
      /\ emDrain.event \in DOMAIN emEvents
      /\ \A i \in DOMAIN emQueue : emDrain.event < emQueue[i]
      /\ DOMAIN emEvents \subseteq EmEventSet /\ DOMAIN emEvents \subseteq Nat
  BY <1>0, <1>1, EmEventsTyped DEF EmQueuedInOrder
<1>4. /\ emDrain.seq = emSeq[emEvents[emDrain.event].issue]
      /\ EmSeenRight(emDrain.seen, emDrain.event)
      /\ \A p \in emIntents :
            /\ p.event = emDrain.event => p.seq = emDrain.seq /\ p.seen = emDrain.seen
            /\ p.event < emDrain.event /\ p.epoch = emEpoch
                 /\ emEvents[p.event].issue = emEvents[emDrain.event].issue => p.seq < emDrain.seq
      /\ emDrain.seq \in Nat
  BY <1>0, <1>1, <1>2, EmAssumption DEF EmNumbersRise, EmFlight
<1>5. new \in EmIntent
  BY <1>2, <1>3, EmAssumption DEF EmFlight, EmIntent
<1>6. /\ new.event = emDrain.event /\ new.seq = emDrain.seq /\ new.epoch = emEpoch /\ new.seen = emDrain.seen
  OBVIOUS
<1> HIDE DEF new
<1>7. \/ emDrain'.at = "idle"
      \/ /\ emDrain'.at = "built" /\ emDrain'.event = emDrain.event /\ emDrain'.seq = emDrain.seq
         /\ emDrain'.seen = emDrain.seen
  BY <1>1, <1>2 DEF EmFlight, EmNothing
<1>8. EmTyped'
  <2>1. emDrain' \in EmFlight
    <3>1. EmNothing \in EmFlight
      BY EmAssumption DEF EmNothing, EmFlight
    <3>2. [emDrain EXCEPT !.hooks = @ \ {hook}] \in EmFlight
      BY <1>2 DEF EmFlight
    <3> QED BY <1>1, <3>1, <3>2
  <2> QED BY <1>0, <1>1, <1>5, <2>1 DEF EmTyped
<1>9. EmClocked' /\ EmAccounted'
  BY <1>0, <1>1 DEF EmClocked, EmAccounted
<1>10. EmNumbersSpent'
  <2>1. EmToRead = 0 /\ EmToRead' = 0
    BY <1>1, <1>7 DEF EmToRead
  <2> QED BY <1>0, <1>1, <2>1 DEF EmNumbersSpent
<1>11. EmQueuedInOrder'
  <2>1. \A p \in emIntents' :
          /\ p.event \in DOMAIN emEvents /\ p.event =< emDrain.event
          /\ \A i \in DOMAIN emQueue : p.event < emQueue[i]
    BY <1>0, <1>1, <1>3, <1>6 DEF EmQueuedInOrder
  <2>2. \A i \in DOMAIN emQueue : emQueue[i] \in DOMAIN emEvents /\ \A j \in DOMAIN emQueue : i < j => emQueue[i] < emQueue[j]
    BY <1>0 DEF EmQueuedInOrder
  <2> QED BY <1>1, <1>3, <1>7, <2>1, <2>2 DEF EmQueuedInOrder
<1>12. EmNumbersRise'
  <2>1. \A p \in emIntents' : EmSeenRight(p.seen, p.event)' /\ p.epoch =< emEpoch'
          /\ (p.epoch = emEpoch' => p.seq =< emSeq'[emEvents'[p.event].issue])
    <3>1. \A p \in emIntents : EmSeenRight(p.seen, p.event) /\ p.epoch =< emEpoch
            /\ (p.epoch = emEpoch => p.seq =< emSeq[emEvents[p.event].issue])
      BY <1>0 DEF EmNumbersRise
    <3>2. EmSeenRight(new.seen, new.event) /\ new.epoch =< emEpoch /\ new.seq =< emSeq[emEvents[new.event].issue]
      BY <1>2, <1>4, <1>6
    <3> QED BY <1>1, <3>1, <3>2 DEF EmSeenRight
  <2>2. CASE emDrain'.at = "idle"
    BY <2>1, <2>2 DEF EmNumbersRise
  <2>3. CASE emDrain'.at # "idle"
    <3>1. emDrain'.event = emDrain.event /\ emDrain'.seq = emDrain.seq /\ emDrain'.seen = emDrain.seen
      BY <1>7, <2>3
    <3>2. \A p \in emIntents' :
            /\ p.event = emDrain.event => p.seq = emDrain.seq /\ p.seen = emDrain.seen
            /\ p.event < emDrain.event /\ p.epoch = emEpoch
                 /\ emEvents[p.event].issue = emEvents[emDrain.event].issue => p.seq < emDrain.seq
      BY <1>1, <1>3, <1>4, <1>6
    <3> QED BY <1>1, <1>4, <2>1, <3>1, <3>2 DEF EmNumbersRise, EmSeenRight
  <2> QED BY <2>2, <2>3
<1>13. EmOrdered'
  <2>1. ASSUME NEW p \in emIntents', NEW q \in emIntents',
               emEvents[p.event].issue = emEvents[q.event].issue, p.epoch = q.epoch
        PROVE  (p.event = q.event => p.seq = q.seq /\ p.seen = q.seen) /\ (p.event < q.event => p.seq < q.seq)
    <3>1. CASE p \in emIntents /\ q \in emIntents
      BY <1>0, <2>1, <3>1 DEF EmOrdered
    <3>2. CASE p \in emIntents /\ q = new
      BY <1>3, <1>4, <1>6, <2>1, <3>2
    <3>3. CASE p = new /\ q \in emIntents
      <4>1. q.event =< emDrain.event /\ q.event \in Nat /\ emDrain.event \in Nat
        BY <1>3, <3>3
      <4>2. ~(emDrain.event < q.event)
        BY <4>1
      <4> QED BY <1>4, <1>6, <3>3, <4>2
    <3>4. CASE p = new /\ q = new
      BY <1>3, <1>6, <3>4
    <3> QED BY <1>1, <3>1, <3>2, <3>3, <3>4
  <2> QED BY <1>1, <2>1 DEF EmOrdered
<1>14. EmOnTime'
  <2>1. emRun = "running" =>
          /\ \A i \in DOMAIN emQueue : emTime =< emEvents[emQueue[i]].at + EmSettle
          /\ emTime =< emEvents[emDrain.event].at + EmSettle
    BY <1>0, <1>1, EmOnTimeIs
  <2>2. EmOnTime' <=>
          (emRun' = "running" =>
             /\ \A i \in DOMAIN emQueue' : emTime' =< emEvents'[emQueue'[i]].at + EmSettle
             /\ emDrain'.at # "idle" => emTime' =< emEvents'[emDrain'.event].at + EmSettle)
    BY <1>8, EmOnTimeIs DEF EmOnTime, ToSet
  <2> QED BY <1>1, <1>7, <2>1, <2>2
<1> QED BY <1>8, <1>9, <1>10, <1>11, <1>12, <1>13, <1>14 DEF EmInv

(* Time passes only when the drain has nothing to do, or waits.            *)
LEMMA EmTickKeeps ==
  ASSUME EmInv, EmTick
  PROVE  EmInv'
<1>0. EmTyped /\ EmClocked /\ EmQueuedInOrder /\ EmNumbersSpent /\ EmNumbersRise
      /\ EmAccounted /\ EmOnTime /\ EmOrdered
  BY DEF EmInv
<1>1. /\ UNCHANGED <<emEvents, emLanded, emQueue, emDropped, emEmitted, emDrain, emSeq, emEpoch, emIntents, emRun>>
      /\ emTime' = emTime + 1 /\ emTime < MaxEmTime
      /\ \A n \in DOMAIN emEvents \ emLanded : emTime + 1 < emEvents[n].at + EmSettle
      /\ \/ emDrain.at = "idle" /\ (emQueue = <<>> \/ emRun = "stopped")
         \/ emDrain.at = "routed" /\ ~EmSettled
  BY DEF EmTick
<1>2. emTime \in 0..MaxEmTime /\ MaxEmTime \in Nat /\ EmSettle \in Nat
      /\ \A n \in DOMAIN emEvents : emEvents[n].at \in Nat
  BY <1>0, EmEventsTyped, EmAssumption DEF EmTyped
<1>3. emTime + 1 \in 0..MaxEmTime
  BY <1>1, <1>2
<1>4. EmTyped'
  BY <1>0, <1>1, <1>3 DEF EmTyped
<1>5. EmClocked'
  <2>1. \A n \in DOMAIN emEvents : emEvents[n].at =< emTime + 1
    BY <1>0, <1>2 DEF EmClocked
  <2>2. \A n \in DOMAIN emEvents : n \notin emLanded => emTime + 1 < emEvents[n].at + EmSettle
    BY <1>1
  <2>3. \A n, m \in DOMAIN emEvents : n =< m => emEvents[n].at =< emEvents[m].at
    BY <1>0 DEF EmClocked
  <2> QED BY <1>1, <2>1, <2>2, <2>3 DEF EmClocked
<1>6. EmQueuedInOrder' /\ EmNumbersSpent' /\ EmNumbersRise' /\ EmAccounted' /\ EmOrdered'
  BY <1>0, <1>1 DEF EmQueuedInOrder, EmNumbersSpent, EmToRead, EmNumbersRise, EmSeenRight, EmAccounted, EmOrdered
<1>7. EmOnTime'
  <2>1. EmOnTime' <=>
          (emRun' = "running" =>
             /\ \A i \in DOMAIN emQueue' : emTime' =< emEvents'[emQueue'[i]].at + EmSettle
             /\ emDrain'.at # "idle" => emTime' =< emEvents'[emDrain'.event].at + EmSettle)
    BY <1>4, EmOnTimeIs DEF EmOnTime, ToSet
  <2>2. CASE emDrain.at = "idle" /\ (emQueue = <<>> \/ emRun = "stopped")
    <3>1. emRun = "running" => DOMAIN emQueue = {}
      BY <2>2
    <3> QED BY <1>1, <2>1, <2>2, <3>1
  <2>3. CASE emDrain.at = "routed" /\ ~EmSettled
    <3> DEFINE n == emDrain.event
    <3>1. n \in DOMAIN emEvents /\ \A i \in DOMAIN emQueue : emQueue[i] \in DOMAIN emEvents /\ n < emQueue[i]
      BY <1>0, <2>3 DEF EmQueuedInOrder
    <3>2. emTime + 1 =< emEvents[n].at + EmSettle
      <4>1. ~(emTime >= emEvents[n].at + EmSettle)
        BY <2>3 DEF EmSettled, EmDeadline
      <4>2. emEvents[n].at \in Nat
        BY <1>2, <3>1
      <4> QED BY <1>2, <4>1, <4>2
    <3>3. ASSUME NEW i \in DOMAIN emQueue PROVE emTime + 1 =< emEvents[emQueue[i]].at + EmSettle
      <4>1. n \in Nat /\ emQueue[i] \in Nat
        BY <1>0, <3>1, EmEventsTyped
      <4>2. emEvents[n].at =< emEvents[emQueue[i]].at
        BY <1>0, <3>1, <4>1 DEF EmClocked
      <4>3. emEvents[n].at \in Nat /\ emEvents[emQueue[i]].at \in Nat
        BY <1>2, <3>1
      <4> QED BY <1>2, <3>2, <4>2, <4>3
    <3> QED BY <1>1, <2>1, <3>2, <3>3
  <2> QED BY <1>1, <2>2, <2>3
<1> QED BY <1>4, <1>5, <1>6, <1>7 DEF EmInv

LEMMA EmRunKeeps ==
  ASSUME EmInv, EmStop \/ EmExit \/ UNCHANGED emVars
  PROVE  EmInv'
<1>1. /\ UNCHANGED <<emTime, emEvents, emLanded, emQueue, emDropped, emEmitted, emDrain, emSeq, emEpoch, emIntents>>
      /\ emRun' \in {"running", "stopping", "stopped"} /\ (emRun' = "running" => emRun = "running")
  BY DEF EmStop, EmExit, emVars, EmInv, EmTyped
<1>2. EmTyped' /\ EmClocked' /\ EmQueuedInOrder' /\ EmNumbersSpent'
  BY <1>1 DEF EmInv, EmTyped, EmClocked, EmQueuedInOrder, EmNumbersSpent, EmToRead
<1>3. EmNumbersRise' /\ EmAccounted' /\ EmOnTime' /\ EmOrdered'
  BY <1>1 DEF EmInv, EmNumbersRise, EmSeenRight, EmAccounted, EmOnTime, EmOrdered
<1> QED BY <1>2, <1>3 DEF EmInv

LEMMA EmSteps == EmInv /\ [EmNext]_emVars => EmInv'
<1> SUFFICES ASSUME EmInv, [EmNext]_emVars PROVE EmInv'
  OBVIOUS
<1>1. CASE EmTake
  BY <1>1, EmTakeKeeps
<1>2. CASE EmRead
  BY <1>2, EmReadKeeps
<1>3. CASE EmStop \/ EmExit \/ UNCHANGED emVars
  BY <1>3, EmRunKeeps
<1>4. CASE EmTick
  BY <1>4, EmTickKeeps
<1>5. ASSUME NEW issue \in EmIssue, EmNotify(issue) PROVE EmInv'
  BY <1>5, EmNotifyKeeps
<1>6. ASSUME NEW n \in DOMAIN emEvents \ emLanded, EmLand(n) PROVE EmInv'
  BY <1>6, EmLandKeeps
<1>7. ASSUME NEW hook \in EmHook, EmEnqueue(hook) PROVE EmInv'
  BY <1>7, EmEnqueueKeeps
<1> QED BY <1>1, <1>2, <1>3, <1>4, <1>5, <1>6, <1>7 DEF EmNext

LEMMA EmInvMeans == EmInv => EmTypeOK /\ EmitterSound
<1> SUFFICES ASSUME EmInv PROVE EmTypeOK /\ EmitterSound
  OBVIOUS
<1>0. EmTyped /\ EmNumbersSpent /\ EmNumbersRise /\ EmAccounted /\ EmOnTime /\ EmOrdered
  BY DEF EmInv
<1>1. emEmitted =< MaxEmEvents /\ emDropped =< MaxEmEvents /\ MaxEmEvents \in Nat
      /\ emEmitted \in Nat /\ emDropped \in Nat /\ emEpoch \in Nat
  BY <1>0, EmEmittedBound, EmAssumption DEF EmTyped
<1>2. emEpoch + EmToRead =< emEmitted /\ EmToRead \in Nat
  BY <1>0 DEF EmNumbersSpent, EmToRead
<1> HIDE DEF EmToRead
<1>3. {emDropped, emEmitted, emEpoch} \subseteq 0..MaxEmEvents
  BY <1>1, <1>2
<1>4. emSeq \in [EmIssue -> 0..MaxEmEvents]
  <2>1. emSeq \in [EmIssue -> Nat]
    BY <1>0 DEF EmTyped
  <2>2. ASSUME NEW i \in EmIssue PROVE emSeq[i] \in 0..MaxEmEvents
    <3>1. emSeq[i] \in Nat /\ emEpoch + emSeq[i] + EmToRead =< emEmitted
      BY <1>0, <2>1 DEF EmNumbersSpent
    <3> QED BY <1>1, <1>2, <3>1
  <2> QED BY <2>1, <2>2
<1>5. EmTypeOK
  <2>1. emLanded \subseteq 1..MaxEmEvents
    BY <1>0, EmEventsTyped DEF EmTyped, EmEventSet
  <2>2. emDrain \in [at : {"idle", "routed", "built"}, event : 0..MaxEmEvents, hooks : SUBSET EmHook,
                     seq : 0..MaxEmEvents, seen : SUBSET (1..MaxEmEvents), taken : 0..MaxEmTime]
    BY <1>0, Zenon DEF EmTyped, EmFlight, EmEventSet
  <2>3. emQueue \in Seq(1..MaxEmEvents) /\ Len(emQueue) =< EmQueueSize
    BY <1>0, Zenon DEF EmTyped, EmEventSet
  <2>4. emTime \in 0..MaxEmTime /\ emEvents \in Seq([issue : EmIssue, at : 0..MaxEmTime])
        /\ emRun \in {"running", "stopping", "stopped"}
    BY <1>0, Zenon DEF EmTyped
  <2> QED BY <1>3, <1>4, <2>1, <2>2, <2>3, <2>4, Zenon DEF EmTypeOK
<1>6. EmCountsItself
  BY <1>0 DEF EmNumbersRise, EmSeenRight, EmCountsItself
<1> QED BY <1>0, <1>5, <1>6 DEF EmitterSound

(* The alert emitter, platform/issue_alerts.go: every event that was       *)
(* notified is dropped with a count, queued or has reached the drain; no   *)
(* event waits past its own settle deadline; a payload that was read       *)
(* counts its own event and those before it; and a receiver sees the       *)
(* numbers of an issue rise.                                               *)
THEOREM EmitterTheorem == EmSpec => [](EmTypeOK /\ EmitterSound)
<1>1. EmInit => EmInv
  BY EmInitially
<1>2. EmInv /\ [EmNext]_emVars => EmInv'
  BY EmSteps
<1>3. EmInv => EmTypeOK /\ EmitterSound
  BY EmInvMeans
<1> QED BY <1>1, <1>2, <1>3, PTL DEF EmSpec

-----------------------------------------------------------------------------
(***************************************************************************)
(* The life of an issue.                                                   *)
(***************************************************************************)

LcStage == {"idle", "hit", "miss", "found", "create", "bump", "store", "target", "bumpTarget", "attributed"}

LcStatus == Set \cup {"none"}

LcEvent == [at : LcStage, group : Group \cup {NoGroup}, target : Group \cup {NoGroup}, seen : LcStatus,
            reopened : BOOLEAN, disturbed : BOOLEAN]

LcChange == [at : {"idle", "mark", "set"}, group : Group \cup {NoGroup}, to : LcStatus, disturbed : BOOLEAN]

LcTyped ==
  /\ status \in [Group -> LcStatus] /\ cached \in [Group -> LcStatus]
  /\ mergeOf \in [Group -> Group \cup {NoGroup}] /\ strayed \subseteq Group
  /\ event \in LcEvent /\ operator \in LcChange
  /\ event.at # "idle" => event.group \in Group
  /\ event.at \in {"target", "bumpTarget", "attributed"} => event.target \in Group
  /\ operator.at # "idle" => operator.group \in Group /\ operator.to \in Set

\* An event and a change that meet know of it.
LcApart ==
  /\ event.at # "idle" /\ ~event.disturbed => ~Changing(event.group) /\ ~Changing(event.target)
  /\ operator.at # "idle" /\ ~operator.disturbed =>
       ~Touches(operator.group) /\ status[operator.group] = operator.to

\* What an event has seen is so, until it has moved the row itself.
LcJudged ==
  /\ event.at = "create" => status[event.group] = "none"
  /\ event.reopened => event.at \in {"store", "attributed"}
  /\ ~event.disturbed =>
       /\ event.at \in {"hit", "found", "bump"} =>
            event.seen = status[event.group] /\ event.seen # "none"
       /\ event.at = "bumpTarget" => event.seen = status[event.target]
       /\ event.at = "store" => Stored(event.seen) = status[event.group]
       /\ event.at \in {"store", "attributed"} => (event.reopened <=> event.seen = "resolved")

\* Only the event that has moved a row, and not yet stored the entry, is ahead.
LcFollows ==
  \A g \in Group \ strayed :
    ~Changing(g) => (event.at = "store" /\ event.group = g) \/ cached[g] \in {"none", status[g]}

LcInv == LcTyped /\ LcApart /\ LcJudged /\ LcFollows

LEMMA LcInitially == LifecycleInit => LcInv
<1> SUFFICES ASSUME LifecycleInit PROVE LcInv
  OBVIOUS
<1> USE DEF LifecycleInit, NoEvent, NoChange
<1>1. NoEvent \in LcEvent /\ NoChange \in LcChange
  BY DEF LcEvent, LcChange, LcStage, LcStatus
<1>2. LcTyped
  BY <1>1 DEF LcTyped, LcStatus
<1>3. LcApart /\ LcJudged /\ LcFollows
  BY DEF LcApart, LcJudged, LcFollows, Changing, LcStatus
<1> QED BY <1>2, <1>3 DEF LcInv

LEMMA LcArrives ==
  ASSUME LcInv, NEW g \in Group, EventArrives(g)
  PROVE  LcInv'
<1>0. LcTyped /\ LcApart /\ LcJudged /\ LcFollows
  BY DEF LcInv
<1>1. PICK hit \in {TRUE, FALSE} :
        /\ hit => cached[g] # "none"
        /\ event' = [NoEvent EXCEPT !.at = IF hit THEN "hit" ELSE "miss", !.group = g,
               !.seen = IF hit THEN cached[g] ELSE "none",
               !.disturbed = Changing(g) \/ (hit /\ g \in strayed)]
  BY DEF EventArrives
<1>2. /\ UNCHANGED <<status, cached, mergeOf, strayed>> /\ event.at = "idle"
      /\ operator' = [operator EXCEPT !.disturbed = @ \/ Changing(g)]
  BY DEF EventArrives
<1>3. /\ event'.at = (IF hit THEN "hit" ELSE "miss") /\ event'.group = g /\ event'.target = NoGroup
      /\ event'.seen = (IF hit THEN cached[g] ELSE "none")
      /\ event'.disturbed = (Changing(g) \/ (hit /\ g \in strayed))
      /\ event'.reopened = FALSE
  BY <1>1, Zenon DEF NoEvent
<1>4. /\ operator'.at = operator.at /\ operator'.group = operator.group /\ operator'.to = operator.to
      /\ operator'.disturbed = (operator.disturbed \/ Changing(g))
  BY <1>0, <1>2 DEF LcTyped, LcChange
<1>5. event' \in LcEvent /\ operator' \in LcChange
  <2> DEFINE at == IF hit THEN "hit" ELSE "miss"
             seen == IF hit THEN cached[g] ELSE "none"
             met == Changing(g) \/ (hit /\ g \in strayed)
             meets == operator.disturbed \/ Changing(g)
  <2>1. NoEvent \in LcEvent
    BY DEF NoEvent, LcEvent, LcStage, LcStatus
  <2>2. at \in LcStage /\ seen \in LcStatus /\ met \in BOOLEAN /\ meets \in BOOLEAN
    BY <1>0 DEF LcTyped, LcStage, LcStatus
  <2>3. event' = [NoEvent EXCEPT !.at = at, !.group = g, !.seen = seen, !.disturbed = met]
    BY <1>1, Zenon
  <2>4. operator' = [operator EXCEPT !.disturbed = meets]
    BY <1>0, <1>2 DEF LcTyped, LcChange
  <2> HIDE DEF at, seen, met, meets
  <2>5. event' \in LcEvent
    BY <2>1, <2>2, <2>3 DEF LcEvent
  <2>6. operator' \in LcChange
    BY <1>0, <2>2, <2>4 DEF LcTyped, LcChange
  <2> QED BY <2>5, <2>6
<1>6. LcTyped'
  BY <1>0, <1>2, <1>3, <1>4, <1>5 DEF LcTyped
<1>7. ~Changing(NoGroup) /\ \A o : Changing(o)' <=> Changing(o)
  BY <1>0, <1>4, LifecycleAssumption DEF Changing, LcTyped
<1>8. LcApart'
  BY <1>0, <1>2, <1>3, <1>4, <1>7, LifecycleAssumption DEF LcApart, Changing, Touches, LcTyped
<1>9. LcFollows'
  BY <1>0, <1>2, <1>3, <1>7 DEF LcFollows
<1>10. LcJudged'
  <2>1. event'.at # "create" /\ event'.at \notin {"bumpTarget", "store", "attributed", "found", "bump"}
    BY <1>3
  <2>2. ASSUME event'.at = "hit", ~event'.disturbed
        PROVE  event'.seen = status'[event'.group] /\ event'.seen # "none"
    <3>1. hit /\ ~Changing(g) /\ g \notin strayed
      BY <1>3, <2>2
    <3>2. cached[g] \in {"none", status[g]}
      BY <1>0, <1>2, <3>1 DEF LcFollows
    <3> QED BY <1>1, <1>2, <1>3, <3>1, <3>2
  <2> QED BY <1>3, <2>1, <2>2 DEF LcJudged
<1> QED BY <1>6, <1>8, <1>9, <1>10 DEF LcInv

(* A change of the status that goes on beside the event.                   *)
LEMMA LcChangeHears ==
  ASSUME LcTyped, NEW met, operator' = [operator EXCEPT !.disturbed = @ \/ Changing(met)]
  PROVE  /\ operator' \in LcChange
         /\ operator'.at = operator.at /\ operator'.group = operator.group /\ operator'.to = operator.to
         /\ operator'.disturbed = (operator.disturbed \/ Changing(met))
         /\ \A o : Changing(o)' <=> Changing(o)
<1> DEFINE meets == operator.disturbed \/ Changing(met)
<1>1. meets \in BOOLEAN /\ operator \in LcChange
  BY DEF LcTyped
<1>2. operator' = [operator EXCEPT !.disturbed = meets]
  BY <1>1 DEF LcChange
<1> HIDE DEF meets
<1>3. /\ operator' \in LcChange /\ operator'.at = operator.at /\ operator'.group = operator.group
      /\ operator'.to = operator.to /\ operator'.disturbed = meets
  BY <1>1, <1>2 DEF LcChange
<1>4. \A o : Changing(o)' <=> Changing(o)
  BY <1>3 DEF Changing
<1> QED BY <1>3, <1>4 DEF meets

LEMMA LcToTarget ==
  ASSUME LcTyped, event.at # "idle", Merged(event.group), event' = ToTarget
  PROVE  /\ event' \in LcEvent
         /\ event'.at = "target" /\ event'.group = event.group /\ event'.target = mergeOf[event.group]
         /\ event'.target \in Group /\ event'.seen = event.seen /\ (event'.reopened <=> event.reopened)
         /\ event'.disturbed = (event.disturbed \/ Changing(mergeOf[event.group]))
<1> DEFINE met == event.disturbed \/ Changing(mergeOf[event.group])
           to == mergeOf[event.group]
<1>1. met \in BOOLEAN /\ event \in LcEvent /\ to \in Group
  BY LifecycleAssumption DEF LcTyped, Merged
<1>2. event' = [event EXCEPT !.at = "target", !.target = to, !.disturbed = met]
  BY <1>1 DEF LcEvent, ToTarget
<1> HIDE DEF met, to
<1>3. /\ event' \in LcEvent /\ event'.at = "target" /\ event'.group = event.group /\ event'.target = to
      /\ event'.seen = event.seen /\ event'.disturbed = met /\ (event'.reopened <=> event.reopened)
  BY <1>1, <1>2 DEF LcEvent, LcStage
<1> QED BY <1>1, <1>3 DEF met, to

\* The event is over, and its issue not ahead of its entry.
LEMMA LcEnds ==
  ASSUME LcInv, event' = NoEvent, event.at # "store",
         UNCHANGED <<status, cached, mergeOf, operator, strayed>>
  PROVE  LcInv'
<1>0. LcTyped /\ LcApart /\ LcJudged /\ LcFollows
  BY DEF LcInv
<1>1. NoEvent \in LcEvent
  BY DEF NoEvent, LcEvent, LcStage, LcStatus
<1>2. event'.at = "idle" /\ ~event'.reopened /\ \A g : Changing(g)' <=> Changing(g)
  BY DEF NoEvent, Changing
<1>3. LcTyped'
  BY <1>0, <1>1, <1>2 DEF LcTyped
<1>4. LcApart' /\ LcJudged' /\ LcFollows'
  BY <1>0, <1>2 DEF LcApart, LcJudged, LcFollows, Touches
<1> QED BY <1>3, <1>4 DEF LcInv

LEMMA LcHitRoutes ==
  ASSUME LcInv, HitRoutes
  PROVE  LcInv'
<1>0. LcTyped /\ LcApart /\ LcJudged /\ LcFollows
  BY DEF LcInv
<1>1. /\ UNCHANGED <<status, cached, mergeOf, strayed>> /\ event.at = "hit"
      /\ operator' = [operator EXCEPT !.disturbed = @ \/ Changing(mergeOf[event.group])]
      /\ event' = IF Merged(event.group) THEN ToTarget ELSE [event EXCEPT !.at = "bump"]
  BY DEF HitRoutes
<1>2. event.group \in Group /\ mergeOf[event.group] \in Group \cup {NoGroup} /\ event \in LcEvent
  BY <1>0, <1>1 DEF LcTyped
<1>3. /\ operator' \in LcChange
      /\ operator'.at = operator.at /\ operator'.group = operator.group /\ operator'.to = operator.to
      /\ operator'.disturbed = (operator.disturbed \/ Changing(mergeOf[event.group]))
      /\ \A o : Changing(o)' <=> Changing(o)
  BY <1>0, <1>1, LcChangeHears
<1>4. CASE Merged(event.group)
  <2>1. /\ event' \in LcEvent
        /\ event'.at = "target" /\ event'.group = event.group /\ event'.target = mergeOf[event.group]
        /\ event'.target \in Group /\ (event'.reopened <=> event.reopened)
        /\ event'.disturbed = (event.disturbed \/ Changing(mergeOf[event.group]))
    BY <1>0, <1>1, <1>4, LcToTarget
  <2>2. LcTyped' /\ LcJudged' /\ LcFollows'
    BY <1>0, <1>1, <1>2, <1>3, <2>1 DEF LcTyped, LcJudged, LcFollows
  <2>3. LcApart'
    BY <1>0, <1>1, <1>3, <2>1 DEF LcApart, Changing, Touches
  <2> QED BY <2>2, <2>3 DEF LcInv
<1>5. CASE ~Merged(event.group)
  <2>1. /\ event' \in LcEvent /\ event'.at = "bump" /\ event'.group = event.group /\ event'.target = event.target
        /\ event'.seen = event.seen /\ (event'.disturbed <=> event.disturbed) /\ (event'.reopened <=> event.reopened)
    BY <1>1, <1>2, <1>5 DEF LcEvent, LcStage
  <2>2. LcTyped' /\ LcJudged' /\ LcFollows'
    BY <1>0, <1>1, <1>2, <1>3, <2>1 DEF LcTyped, LcJudged, LcFollows
  <2>3. LcApart'
    BY <1>0, <1>1, <1>3, <2>1 DEF LcApart, Changing, Touches
  <2> QED BY <2>2, <2>3 DEF LcInv
<1> QED BY <1>4, <1>5

LEMMA LcFindIssue ==
  ASSUME LcInv, FindIssue
  PROVE  LcInv'
<1>0. LcTyped /\ LcApart /\ LcJudged /\ LcFollows
  BY DEF LcInv
<1>1. /\ UNCHANGED <<status, cached, mergeOf, operator, strayed>> /\ event.at = "miss"
      /\ event' = IF status[event.group] = "none" THEN [event EXCEPT !.at = "create"]
                  ELSE [event EXCEPT !.at = "found", !.seen = status[event.group]]
  BY DEF FindIssue
<1>2. event.group \in Group /\ status[event.group] \in LcStatus /\ event \in LcEvent
  BY <1>0, <1>1 DEF LcTyped
<1>3. /\ event' \in LcEvent /\ event'.group = event.group /\ event'.target = event.target
      /\ (event'.disturbed <=> event.disturbed) /\ (event'.reopened <=> event.reopened)
      /\ \/ event'.at = "create" /\ status[event.group] = "none"
         \/ event'.at = "found" /\ event'.seen = status[event.group] /\ status[event.group] # "none"
  BY <1>1, <1>2 DEF LcEvent, LcStage
<1>4. LcTyped' /\ LcJudged'
  BY <1>0, <1>1, <1>2, <1>3 DEF LcTyped, LcJudged
<1>5. LcApart' /\ LcFollows'
  BY <1>0, <1>1, <1>3 DEF LcApart, LcFollows, Changing, Touches
<1> QED BY <1>4, <1>5 DEF LcInv

LEMMA LcFoundRoutes ==
  ASSUME LcInv, FoundRoutes
  PROVE  LcInv'
<1>0. LcTyped /\ LcApart /\ LcJudged /\ LcFollows
  BY DEF LcInv
<1>1. /\ UNCHANGED <<status, mergeOf>> /\ event.at = "found"
      /\ operator' = [operator EXCEPT !.disturbed = @ \/ Changing(mergeOf[event.group])]
  BY DEF FoundRoutes
<1>2. event.group \in Group /\ mergeOf[event.group] \in Group \cup {NoGroup} /\ event \in LcEvent
  BY <1>0, <1>1 DEF LcTyped
<1>3. /\ operator' \in LcChange
      /\ operator'.at = operator.at /\ operator'.group = operator.group /\ operator'.to = operator.to
      /\ operator'.disturbed = (operator.disturbed \/ Changing(mergeOf[event.group]))
      /\ \A o : Changing(o)' <=> Changing(o)
  BY <1>0, <1>1, LcChangeHears
<1>4. CASE Merged(event.group)
  <2>1. /\ event' = ToTarget /\ cached' = [cached EXCEPT ![event.group] = "open"]
        /\ strayed' = strayed \cup {event.group}
    BY <1>4 DEF FoundRoutes, Strays
  <2>2. /\ event' \in LcEvent
        /\ event'.at = "target" /\ event'.group = event.group /\ event'.target = mergeOf[event.group]
        /\ event'.target \in Group /\ (event'.reopened <=> event.reopened)
        /\ event'.disturbed = (event.disturbed \/ Changing(mergeOf[event.group]))
    BY <1>0, <1>1, <1>4, <2>1, LcToTarget
  <2>3. LcTyped' /\ LcJudged'
    BY <1>0, <1>1, <1>2, <1>3, <2>1, <2>2 DEF LcTyped, LcJudged, LcStatus, Set
  <2>4. LcApart'
    BY <1>0, <1>1, <1>3, <2>2 DEF LcApart, Changing, Touches
  <2>5. LcFollows'
    BY <1>0, <1>1, <1>3, <2>1 DEF LcFollows, LcTyped
  <2> QED BY <2>3, <2>4, <2>5 DEF LcInv
<1>5. CASE ~Merged(event.group)
  <2>1. event' = [event EXCEPT !.at = "bump"] /\ UNCHANGED <<cached, strayed>>
    BY <1>5 DEF FoundRoutes
  <2>2. /\ event' \in LcEvent /\ event'.at = "bump" /\ event'.group = event.group /\ event'.target = event.target
        /\ event'.seen = event.seen /\ (event'.disturbed <=> event.disturbed) /\ (event'.reopened <=> event.reopened)
    BY <1>2, <2>1 DEF LcEvent, LcStage
  <2>3. LcTyped' /\ LcJudged' /\ LcFollows'
    BY <1>0, <1>1, <1>2, <1>3, <2>1, <2>2 DEF LcTyped, LcJudged, LcFollows
  <2>4. LcApart'
    BY <1>0, <1>1, <1>3, <2>2 DEF LcApart, Changing, Touches
  <2> QED BY <2>3, <2>4 DEF LcInv
<1> QED BY <1>4, <1>5

LEMMA LcBumpIssue ==
  ASSUME LcInv, BumpIssue
  PROVE  LcInv'
<1> DEFINE g == event.group
<1>0. LcTyped /\ LcApart /\ LcJudged /\ LcFollows
  BY DEF LcInv
<1>1. /\ UNCHANGED <<cached, mergeOf, operator>> /\ event.at = "bump"
      /\ status' = [status EXCEPT ![g] = Bumped(@)]
  BY DEF BumpIssue
<1>2. g \in Group /\ status[g] \in LcStatus /\ event \in LcEvent
  BY <1>0, <1>1 DEF LcTyped
<1>3. status' \in [Group -> LcStatus] /\ status'[g] = Bumped(status[g])
      /\ \A o \in Group : o # g => status'[o] = status[o]
  BY <1>0, <1>1, <1>2 DEF LcTyped, Bumped, LcStatus, Set
<1>4. (\A o : Changing(o)' <=> Changing(o)) /\ (~event.disturbed => ~Changing(g))
  BY <1>0, <1>1 DEF LcApart, Changing
<1>5. operator.at # "idle" /\ ~operator.disturbed => operator.group # g
  BY <1>0, <1>1 DEF LcApart, Touches
<1>6. CASE event' = [event EXCEPT !.at = "store", !.reopened = status[g] = "resolved"] /\ UNCHANGED strayed
  <2> DEFINE was == status[g] = "resolved"
  <2>1. event' = [event EXCEPT !.at = "store", !.reopened = was] /\ was \in BOOLEAN
    BY <1>6
  <2> HIDE DEF was
  <2>2. /\ event' \in LcEvent /\ event'.at = "store" /\ event'.group = g /\ event'.target = event.target
        /\ event'.seen = event.seen /\ (event'.disturbed <=> event.disturbed) /\ event'.reopened = was
    BY <1>2, <2>1 DEF LcEvent, LcStage
  <2>3. LcTyped'
    BY <1>0, <1>1, <1>2, <1>3, <1>6, <2>2 DEF LcTyped
  <2>4. ~event.disturbed => event.seen = status[g]
    BY <1>0, <1>1 DEF LcJudged
  <2>5. LcJudged'
    BY <1>3, <2>2, <2>4 DEF LcJudged, Stored, Bumped, was
  <2>6. LcApart'
    BY <1>0, <1>1, <1>3, <1>4, <1>5, <2>2 DEF LcApart, Touches, LcTyped
  <2>7. LcFollows'
    BY <1>0, <1>1, <1>3, <1>4, <1>6, <2>2 DEF LcFollows
  <2> QED BY <2>3, <2>5, <2>6, <2>7 DEF LcInv
<1>7. CASE event' = NoEvent /\ Strays(g)
  <2>1. event' \in LcEvent /\ event'.at = "idle" /\ ~event'.reopened /\ strayed' = strayed \cup {g}
    BY <1>7 DEF NoEvent, LcEvent, LcStage, LcStatus, Strays
  <2>2. LcTyped' /\ LcJudged'
    BY <1>0, <1>1, <1>2, <1>3, <2>1 DEF LcTyped, LcJudged
  <2>3. LcApart'
    BY <1>0, <1>1, <1>3, <1>5, <2>1 DEF LcApart, Touches, LcTyped
  <2>4. LcFollows'
    BY <1>0, <1>1, <1>3, <1>4, <2>1 DEF LcFollows
  <2> QED BY <2>2, <2>3, <2>4 DEF LcInv
<1> QED BY <1>6, <1>7 DEF BumpIssue

LEMMA LcStoreEntry ==
  ASSUME LcInv, StoreEntry
  PROVE  LcInv'
<1> DEFINE g == event.group
<1>0. LcTyped /\ LcApart /\ LcJudged /\ LcFollows
  BY DEF LcInv
<1>1. UNCHANGED <<status, mergeOf, operator>> /\ event.at = "store" /\ event' = NoEvent
  BY DEF StoreEntry
<1>2. g \in Group /\ event \in LcEvent /\ event.seen \in LcStatus
  BY <1>0, <1>1 DEF LcTyped, LcEvent
<1>3. event' \in LcEvent /\ event'.at = "idle" /\ ~event'.reopened
  BY <1>1 DEF NoEvent, LcEvent, LcStage, LcStatus
<1>4. \A o : Changing(o)' <=> Changing(o)
  BY <1>1 DEF Changing
<1>5. LcApart' /\ LcJudged'
  BY <1>0, <1>1, <1>3 DEF LcApart, LcJudged, Touches
<1>6. CASE cached' = [cached EXCEPT ![g] = Stored(event.seen)]
           /\ IF event.disturbed THEN Strays(g) ELSE Mends(g)
  <2>1. Stored(event.seen) \in LcStatus
    BY <1>2 DEF Stored, LcStatus, Set
  <2>2. \/ event.disturbed /\ strayed' = strayed \cup {g}
        \/ ~event.disturbed /\ strayed' = strayed \ {g}
    BY <1>6 DEF Strays, Mends
  <2>3. ~event.disturbed => Stored(event.seen) = status[g]
    BY <1>0, <1>1 DEF LcJudged
  <2>4. cached' \in [Group -> LcStatus] /\ cached'[g] = Stored(event.seen)
        /\ \A o \in Group : o # g => cached'[o] = cached[o]
    BY <1>0, <1>2, <1>6, <2>1 DEF LcTyped
  <2>5. LcTyped'
    BY <1>0, <1>1, <1>2, <1>3, <2>2, <2>4 DEF LcTyped
  <2>6. LcFollows'
    BY <1>0, <1>1, <1>4, <2>2, <2>3, <2>4 DEF LcFollows
  <2> QED BY <1>5, <2>5, <2>6 DEF LcInv
<1>7. CASE UNCHANGED cached /\ Strays(g)
  <2>1. strayed' = strayed \cup {g}
    BY <1>7 DEF Strays
  <2>2. LcTyped'
    BY <1>0, <1>1, <1>2, <1>3, <1>7, <2>1 DEF LcTyped
  <2>3. LcFollows'
    BY <1>0, <1>1, <1>4, <1>7, <2>1 DEF LcFollows
  <2> QED BY <1>5, <2>2, <2>3 DEF LcInv
<1> QED BY <1>6, <1>7 DEF StoreEntry

LEMMA LcCreateIssue ==
  ASSUME LcInv, CreateIssue
  PROVE  LcInv'
<1> DEFINE g == event.group
<1>0. LcTyped /\ LcApart /\ LcJudged /\ LcFollows
  BY DEF LcInv
<1>1. /\ UNCHANGED <<cached, mergeOf, operator, strayed>> /\ event.at = "create"
      /\ status' = [status EXCEPT ![g] = "open"] /\ status[g] = "none"
  BY <1>0 DEF CreateIssue, LcJudged
<1>2. g \in Group /\ event \in LcEvent
  BY <1>0, <1>1 DEF LcTyped
<1>3. status' \in [Group -> LcStatus] /\ status'[g] = "open"
      /\ \A o \in Group : o # g => status'[o] = status[o]
  BY <1>0, <1>1, <1>2 DEF LcTyped, LcStatus, Set
<1>4. (\A o : Changing(o)' <=> Changing(o))
  BY <1>1 DEF Changing
<1>5. operator.at # "idle" /\ ~operator.disturbed => operator.group # g
  BY <1>0, <1>1 DEF LcApart, Touches
<1>6. \/ event' \in LcEvent /\ event'.at = "idle" /\ ~event'.reopened
      \/ /\ event' \in LcEvent /\ event'.at = "store" /\ event'.group = g /\ event'.target = event.target
         /\ event'.seen = "open" /\ (event'.disturbed <=> event.disturbed)
         /\ ~event'.reopened
  <2>1. event' = NoEvent \/ event' = [event EXCEPT !.at = "store", !.seen = "open"]
    BY DEF CreateIssue
  <2>2. NoEvent \in LcEvent /\ NoEvent.at = "idle" /\ NoEvent.reopened = FALSE
    BY DEF NoEvent, LcEvent, LcStage, LcStatus
  <2>3. ~event.reopened
    BY <1>0, <1>1 DEF LcJudged
  <2> QED BY <1>2, <2>1, <2>2, <2>3 DEF LcEvent, LcStage, LcStatus, Set
<1>7. LcTyped'
  BY <1>0, <1>1, <1>2, <1>3, <1>6 DEF LcTyped
<1>8. LcApart'
  BY <1>0, <1>1, <1>3, <1>4, <1>5, <1>6 DEF LcApart, Touches, LcTyped
<1>9. LcFollows'
  BY <1>0, <1>1, <1>3, <1>4, <1>6 DEF LcFollows
<1>10. LcJudged'
  BY <1>0, <1>1, <1>3, <1>6 DEF LcJudged, Stored
<1> QED BY <1>7, <1>8, <1>9, <1>10 DEF LcInv

LEMMA LcReadTarget ==
  ASSUME LcInv, ReadTarget
  PROVE  LcInv'
<1>0. LcTyped /\ LcApart /\ LcJudged /\ LcFollows
  BY DEF LcInv
<1>1. /\ UNCHANGED <<status, cached, mergeOf, operator, strayed>> /\ event.at = "target"
      /\ event' = [event EXCEPT !.at = "bumpTarget", !.seen = status[event.target]]
  BY DEF ReadTarget
<1>2. event.target \in Group /\ status[event.target] \in LcStatus /\ event \in LcEvent
  BY <1>0, <1>1 DEF LcTyped
<1>3. /\ event' \in LcEvent /\ event'.at = "bumpTarget" /\ event'.group = event.group
      /\ event'.target = event.target /\ event'.seen = status[event.target]
      /\ (event'.disturbed <=> event.disturbed) /\ (event'.reopened <=> event.reopened)
  BY <1>1, <1>2 DEF LcEvent, LcStage
<1>4. LcTyped' /\ LcJudged'
  BY <1>0, <1>1, <1>2, <1>3 DEF LcTyped, LcJudged
<1>5. LcApart' /\ LcFollows'
  BY <1>0, <1>1, <1>3 DEF LcApart, LcFollows, Changing, Touches
<1> QED BY <1>4, <1>5 DEF LcInv

LEMMA LcBumpTarget ==
  ASSUME LcInv, BumpTarget
  PROVE  LcInv'
<1> DEFINE t == event.target
           was == status[t] = "resolved"
<1>0. LcTyped /\ LcApart /\ LcJudged /\ LcFollows
  BY DEF LcInv
<1>1. /\ UNCHANGED <<cached, mergeOf, operator>> /\ event.at = "bumpTarget"
      /\ status' = [status EXCEPT ![t] = Bumped(@)]
      /\ strayed' = IF was THEN strayed \cup {t} ELSE strayed
      /\ event' = [event EXCEPT !.at = "attributed", !.reopened = was] \/ event' = NoEvent
  BY DEF BumpTarget, Strays
<1>2. t \in Group /\ status[t] \in LcStatus /\ event \in LcEvent /\ event.group \in Group
  BY <1>0, <1>1 DEF LcTyped
<1>3. status' \in [Group -> LcStatus] /\ (~was => status'[t] = status[t])
      /\ \A o \in Group : o # t => status'[o] = status[o]
  BY <1>0, <1>1, <1>2 DEF LcTyped, Bumped, LcStatus, Set
<1>4. \A o : Changing(o)' <=> Changing(o)
  BY <1>1 DEF Changing
<1>5. operator.at # "idle" /\ ~operator.disturbed => operator.group # t
  BY <1>0, <1>1 DEF LcApart, Touches
<1>6. LcFollows'
  BY <1>0, <1>1, <1>3, <1>4 DEF LcFollows
<1>7. ~event.disturbed => (was <=> event.seen = "resolved")
  BY <1>0, <1>1 DEF LcJudged
<1>8. was \in BOOLEAN
  OBVIOUS
<1> HIDE DEF was
<1>9. \/ event' \in LcEvent /\ event'.at = "idle" /\ ~event'.reopened
      \/ /\ event' \in LcEvent /\ event'.at = "attributed" /\ event'.group = event.group /\ event'.target = t
         /\ event'.seen = event.seen /\ (event'.disturbed <=> event.disturbed) /\ (event'.reopened <=> was)
  <2>1. NoEvent \in LcEvent /\ NoEvent.at = "idle" /\ NoEvent.reopened = FALSE
    BY DEF NoEvent, LcEvent, LcStage, LcStatus
  <2> QED BY <1>1, <1>2, <1>8, <2>1 DEF LcEvent, LcStage
<1>10. LcTyped'
  BY <1>0, <1>1, <1>2, <1>3, <1>9 DEF LcTyped
<1>11. LcApart'
  BY <1>0, <1>1, <1>3, <1>4, <1>5, <1>9 DEF LcApart, Touches, LcTyped
<1>12. LcJudged'
  BY <1>7, <1>9 DEF LcJudged
<1> QED BY <1>6, <1>10, <1>11, <1>12 DEF LcInv

LEMMA LcUpdateStatus ==
  ASSUME LcInv, NEW g \in Group, NEW to \in Set, UpdateStatus(g, to)
  PROVE  LcInv'
<1> DEFINE met == event.disturbed \/ Touches(g)
           meets == Touches(g)
<1>0. LcTyped /\ LcApart /\ LcJudged /\ LcFollows
  BY DEF LcInv
<1>1. /\ UNCHANGED <<cached, mergeOf, strayed>> /\ operator.at = "idle" /\ status[g] # "none"
      /\ status' = [status EXCEPT ![g] = to]
      /\ operator' = [at |-> "mark", group |-> g, to |-> to, disturbed |-> meets]
      /\ event' = [event EXCEPT !.disturbed = @ \/ Touches(g)]
  BY DEF UpdateStatus
<1>2. event \in LcEvent
  BY <1>0 DEF LcTyped
<1>3. met \in BOOLEAN /\ meets \in BOOLEAN /\ event' = [event EXCEPT !.disturbed = met]
  BY <1>1, <1>2 DEF LcEvent, Touches
<1>4. met <=> event.disturbed \/ Touches(g)
  OBVIOUS
<1>5. meets <=> Touches(g)
  OBVIOUS
<1> HIDE DEF met, meets
<1>6. /\ event' \in LcEvent /\ event'.at = event.at /\ event'.group = event.group
      /\ event'.target = event.target /\ event'.seen = event.seen
      /\ (event'.disturbed <=> met) /\ (event'.reopened <=> event.reopened)
  BY <1>2, <1>3 DEF LcEvent
<1>7. /\ operator' \in LcChange /\ operator'.at = "mark" /\ operator'.group = g /\ operator'.to = to
      /\ (operator'.disturbed <=> meets)
  BY <1>1, <1>3 DEF LcChange, LcStatus
<1>8. status' \in [Group -> LcStatus] /\ status'[g] = to /\ \A o \in Group : o # g => status'[o] = status[o]
  BY <1>0, <1>1 DEF LcTyped, LcStatus
<1>9. \A o : (Changing(o)' <=> o = g) /\ ~Changing(o) /\ (Touches(o)' <=> Touches(o))
  BY <1>1, <1>6, <1>7 DEF Changing, Touches
<1>10. LcTyped'
  BY <1>0, <1>1, <1>6, <1>7, <1>8 DEF LcTyped
<1>11. LcApart'
  <2>1. event'.at # "idle" /\ ~event'.disturbed => ~Changing(event.group)' /\ ~Changing(event.target)'
    <3>1. event.at # "idle" /\ ~met => event.group # g /\ event.target # g
      BY <1>0, <1>4, <1>6 DEF Touches, LcTyped, LcEvent
    <3>2. (event'.at # "idle" /\ ~event'.disturbed) => (event.at # "idle" /\ ~met)
      BY <1>6
    <3>3. (Changing(event.group)' <=> event'.group = g) /\ (Changing(event.target)' <=> event'.target = g)
      BY <1>1, <1>7 DEF Changing
    <3> QED BY <1>6, <3>1, <3>2, <3>3
  <2>2. ~operator'.disturbed => ~Touches(operator.group)' /\ status'[operator'.group] = operator'.to
    <3>1. Touches(operator.group)' <=> (event'.at # "idle" /\ operator'.group \in {event'.group, event'.target})
      BY DEF Touches
    <3>2. Touches(operator.group)' <=> Touches(g)
      BY <1>6, <1>7, <3>1 DEF Touches
    <3> QED BY <1>5, <1>7, <1>8, <3>2
  <2> QED BY <2>1, <2>2, Zenon DEF LcApart
<1>12. LcJudged'
  <2>1. event.at = "create" => event.group # g
    BY <1>0, <1>1 DEF LcJudged
  <2>2. event.at # "idle" /\ ~met => event.group # g /\ event.target # g
    BY <1>4 DEF Touches
  <2>3. event.at = "create" => status'[event.group] = "none"
    BY <1>0, <1>8, <2>1 DEF LcJudged, LcTyped
  <2>4. event.at # "idle" /\ ~met => status'[event.group] = status[event.group]
    BY <1>0, <1>8, <2>2 DEF LcTyped
  <2>5. event.at = "bumpTarget" /\ ~met => status'[event.target] = status[event.target]
    BY <1>0, <1>8, <2>2 DEF LcTyped
  <2> QED BY <1>0, <1>4, <1>6, <2>3, <2>4, <2>5 DEF LcJudged
<1>13. LcFollows'
  BY <1>0, <1>1, <1>6, <1>8, <1>9 DEF LcFollows
<1> QED BY <1>10, <1>11, <1>12, <1>13 DEF LcInv

\* The change is over; what it leaves is followed by the entry, or strayed.
LEMMA LcChangeOver ==
  ASSUME LcInv, operator.at # "idle", operator' = NoChange, UNCHANGED <<status, mergeOf, event>>,
         cached' \in [Group -> LcStatus], strayed' \subseteq Group,
         \A g \in Group \ strayed' :
           \/ g # operator.group /\ g \notin strayed /\ cached'[g] = cached[g]
           \/ cached'[g] \in {"none", status[g]}
  PROVE  LcInv'
<1>0. LcTyped /\ LcApart /\ LcJudged /\ LcFollows
  BY DEF LcInv
<1>1. operator' \in LcChange /\ operator'.at = "idle"
  BY DEF NoChange, LcChange, LcStatus
<1>2. LcTyped' /\ LcApart' /\ LcJudged'
  BY <1>0, <1>1 DEF LcTyped, LcApart, LcJudged, Changing
<1>3. LcFollows'
  BY <1>0, <1>1 DEF LcFollows, Changing
<1> QED BY <1>2, <1>3 DEF LcInv

LEMMA LcReadEntry ==
  ASSUME LcInv, ReadEntry
  PROVE  LcInv'
<1> DEFINE g == operator.group
<1>0. LcTyped /\ LcApart /\ LcJudged /\ LcFollows
  BY DEF LcInv
<1>1. UNCHANGED <<status, cached, mergeOf, event>> /\ operator.at = "mark"
  BY DEF ReadEntry
<1>2. operator \in LcChange /\ g \in Group /\ cached \in [Group -> LcStatus] /\ strayed \subseteq Group
  BY <1>0, <1>1 DEF LcTyped
<1>3. CASE operator' = [operator EXCEPT !.at = "set"] /\ UNCHANGED strayed
  <2>1. /\ operator' \in LcChange /\ operator'.at = "set" /\ operator'.group = g /\ operator'.to = operator.to
        /\ (operator'.disturbed <=> operator.disturbed)
    BY <1>2, <1>3 DEF LcChange
  <2>2. LcTyped' /\ LcJudged'
    BY <1>0, <1>1, <1>3, <2>1 DEF LcTyped, LcJudged
  <2>3. LcApart' /\ LcFollows'
    BY <1>0, <1>1, <1>3, <2>1 DEF LcApart, LcFollows, Changing, Touches
  <2> QED BY <2>2, <2>3 DEF LcInv
<1>4. CASE cached[g] = "none" /\ operator' = NoChange /\ UNCHANGED strayed
  BY <1>1, <1>2, <1>4, LcChangeOver
<1>5. CASE operator' = NoChange /\ Strays(g)
  <2>1. strayed' = strayed \cup {g}
    BY <1>5 DEF Strays
  <2>2. \A o \in Group \ strayed' : o # operator.group /\ o \notin strayed /\ cached'[o] = cached[o]
    BY <1>1, <2>1
  <2> QED BY <1>1, <1>2, <1>5, <2>1, <2>2, LcChangeOver
<1> QED BY <1>3, <1>4, <1>5 DEF ReadEntry

LEMMA LcMarkCachedStatus ==
  ASSUME LcInv, MarkCachedStatus
  PROVE  LcInv'
<1> DEFINE g == operator.group
<1>0. LcTyped /\ LcApart /\ LcJudged /\ LcFollows
  BY DEF LcInv
<1>1. UNCHANGED <<status, mergeOf, event>> /\ operator.at = "set" /\ operator' = NoChange
  BY DEF MarkCachedStatus
<1>2. operator \in LcChange /\ g \in Group /\ operator.to \in LcStatus
      /\ cached \in [Group -> LcStatus] /\ strayed \subseteq Group
  BY <1>0, <1>1 DEF LcTyped, LcChange
<1>3. ~operator.disturbed => status[g] = operator.to
  BY <1>0, <1>1 DEF LcApart
<1>4. CASE cached' = [cached EXCEPT ![g] = operator.to]
           /\ IF operator.disturbed THEN Strays(g) ELSE Mends(g)
  <2>1. cached' \in [Group -> LcStatus] /\ cached'[g] = operator.to
        /\ \A o \in Group : o # g => cached'[o] = cached[o]
    BY <1>2, <1>4
  <2>2. \/ operator.disturbed /\ strayed' = strayed \cup {g}
        \/ ~operator.disturbed /\ strayed' = strayed \ {g}
    BY <1>4 DEF Strays, Mends
  <2>3. \A o \in Group \ strayed' :
           \/ o # operator.group /\ o \notin strayed /\ cached'[o] = cached[o]
           \/ cached'[o] \in {"none", status[o]}
    BY <1>3, <2>1, <2>2
  <2>4. strayed' \subseteq Group
    BY <1>2, <2>2
  <2> QED BY <1>1, <2>1, <2>3, <2>4, LcChangeOver
<1>5. CASE UNCHANGED cached /\ Strays(g)
  <2>1. strayed' = strayed \cup {g}
    BY <1>5 DEF Strays
  <2>2. \A o \in Group \ strayed' : o # operator.group /\ o \notin strayed /\ cached'[o] = cached[o]
    BY <1>5, <2>1
  <2> QED BY <1>1, <1>2, <1>5, <2>1, <2>2, LcChangeOver
<1> QED BY <1>4, <1>5 DEF MarkCachedStatus

LEMMA LcMergeChanges ==
  ASSUME LcInv, mergeOf' \in [Group -> Group \cup {NoGroup}], UNCHANGED <<status, cached, event, operator, strayed>>
  PROVE  LcInv'
BY DEF LcInv, LcTyped, LcApart, LcJudged, LcFollows, Changing, Touches

LEMMA LcEntryLost ==
  ASSUME LcInv, NEW g \in Group, EntryLost(g)
  PROVE  LcInv'
<1>0. LcTyped /\ LcApart /\ LcJudged /\ LcFollows
  BY DEF LcInv
<1>1. /\ UNCHANGED <<status, mergeOf, event, operator>> /\ strayed' = strayed \ {g}
      /\ cached' = [cached EXCEPT ![g] = "none"]
  BY DEF EntryLost, Mends
<1>2. cached' \in [Group -> LcStatus] /\ cached'[g] = "none" /\ \A o \in Group : o # g => cached'[o] = cached[o]
  BY <1>0, <1>1 DEF LcTyped, LcStatus
<1>3. LcTyped' /\ LcApart' /\ LcJudged'
  BY <1>0, <1>1, <1>2 DEF LcTyped, LcApart, LcJudged, Changing, Touches
<1>4. LcFollows'
  BY <1>0, <1>1, <1>2 DEF LcFollows, Changing
<1> QED BY <1>3, <1>4 DEF LcInv

LEMMA LcCrash ==
  ASSUME LcInv, LifecycleCrash
  PROVE  LcInv'
<1>0. LcTyped /\ LcApart /\ LcJudged /\ LcFollows
  BY DEF LcInv
<1>1. /\ UNCHANGED <<status, cached, mergeOf>> /\ event' = NoEvent /\ operator' = NoChange
      /\ strayed' = strayed \cup {g \in Group : (event.at = "store" /\ event.group = g) \/ Changing(g)}
  BY DEF LifecycleCrash
<1>2. /\ event' \in LcEvent /\ event'.at = "idle" /\ ~event'.reopened
      /\ operator' \in LcChange /\ operator'.at = "idle"
  BY <1>1 DEF NoEvent, NoChange, LcEvent, LcChange, LcStage, LcStatus
<1>3. LcTyped' /\ LcApart' /\ LcJudged'
  BY <1>0, <1>1, <1>2 DEF LcTyped, LcApart, LcJudged
<1>4. LcFollows'
  BY <1>0, <1>1 DEF LcFollows
<1> QED BY <1>3, <1>4 DEF LcInv

LEMMA LcSteps == LcInv /\ [LifecycleNext]_lifecycleVars => LcInv'
<1> SUFFICES ASSUME LcInv, [LifecycleNext]_lifecycleVars PROVE LcInv'
  OBVIOUS
<1>0. mergeOf \in [Group -> Group \cup {NoGroup}]
  BY DEF LcInv, LcTyped
<1>1. ASSUME NEW g \in Group, EventArrives(g) PROVE LcInv'
  BY <1>1, LcArrives
<1>2. ASSUME NEW g \in Group, UnmergeGroup(g) PROVE LcInv'
  BY <1>0, <1>2, LcMergeChanges DEF UnmergeGroup
<1>3. ASSUME NEW g \in Group, EntryLost(g) PROVE LcInv'
  BY <1>3, LcEntryLost
<1>4. CASE HitRoutes \/ FindIssue \/ FoundRoutes
  BY <1>4, LcHitRoutes, LcFindIssue, LcFoundRoutes
<1>5. CASE BumpIssue \/ StoreEntry \/ CreateIssue
  BY <1>5, LcBumpIssue, LcStoreEntry, LcCreateIssue
<1>6. CASE ReadTarget \/ BumpTarget
  BY <1>6, LcReadTarget, LcBumpTarget
<1>7. CASE TargetTold \/ EventFails
  BY <1>7, LcEnds DEF TargetTold, EventFails
<1>8. ASSUME NEW g \in Group, NEW to \in Set, UpdateStatus(g, to) PROVE LcInv'
  BY <1>8, LcUpdateStatus
<1>9. CASE ReadEntry \/ MarkCachedStatus \/ LifecycleCrash
  BY <1>9, LcReadEntry, LcMarkCachedStatus, LcCrash
<1>10. ASSUME NEW g \in Group, NEW t \in Group, MergeGroups(g, t) PROVE LcInv'
  BY <1>0, <1>10, LcMergeChanges DEF MergeGroups
<1>11. CASE UNCHANGED lifecycleVars
  BY <1>0, <1>11, LcMergeChanges DEF lifecycleVars
<1> QED BY <1>1, <1>2, <1>3, <1>4, <1>5, <1>6, <1>7, <1>8, <1>9, <1>10, <1>11 DEF LifecycleNext

LEMMA LcInvMeans == LcInv => LifecycleTypeOK /\ LifecycleSound
<1> SUFFICES ASSUME LcInv PROVE LifecycleTypeOK /\ LifecycleSound
  OBVIOUS
<1>0. LcTyped /\ LcJudged /\ LcFollows
  BY DEF LcInv
<1>1. LifecycleTypeOK
  BY <1>0 DEF LcTyped, LcEvent, LcChange, LcStage, LcStatus, LifecycleTypeOK
<1>2. EntryFollowsRow
  BY <1>0 DEF LcFollows, Touches, EntryFollowsRow, LcTyped
<1>3. ToldAsItIs
  <2>1. event.at = "store" /\ ~event.disturbed => Stored(event.seen) = status[event.group]
    BY <1>0 DEF LcJudged
  <2>2. event.at \in {"store", "attributed"} /\ ~event.disturbed => (event.reopened <=> event.seen = "resolved")
    BY <1>0 DEF LcJudged
  <2>3. event.at = "store" /\ ~event.disturbed => (event.seen = "ignored" <=> status[event.group] = "ignored")
    BY <2>1 DEF Stored
  <2> QED BY <2>2, <2>3 DEF ToldAsItIs
<1> QED BY <1>1, <1>2, <1>3 DEF LifecycleSound

(* The life of an issue, internal/errors/issues.go: whatever order events, *)
(* changes of the status, merges, losses and crashes come in, a cache entry*)
(* has the status of the row but in the ways the code lets it stray, and a *)
(* regression is told of exactly when the event has reopened the issue.    *)
THEOREM LifecycleTheorem == LifecycleSpec => [](LifecycleTypeOK /\ LifecycleSound)
<1>1. LifecycleInit => LcInv
  BY LcInitially
<1>2. LcInv /\ [LifecycleNext]_lifecycleVars => LcInv'
  BY LcSteps
<1>3. LcInv => LifecycleTypeOK /\ LifecycleSound
  BY LcInvMeans
<1> QED BY <1>1, <1>2, <1>3, PTL DEF LifecycleSpec

-----------------------------------------------------------------------------
(***************************************************************************)
(* Merged issues.                                                          *)
(***************************************************************************)

MgTable == [Issue -> Issue \cup {NoIssue}]

(* The links followed from an issue are a function on so many steps.       *)
IsHops(merges, i, n, hop) ==
  hop = [k \in 0..n |->
           IF k = 0 THEN i
           ELSE IF merges[hop[k - 1]] = NoIssue THEN hop[k - 1] ELSE merges[hop[k - 1]]]

LEMMA HopsExist ==
  ASSUME NEW merges, NEW i, NEW n \in Nat
  PROVE  \E hop : IsHops(merges, i, n, hop)
<1> USE DEF IsHops
<1> DEFINE Follows(m) == \E hop : IsHops(merges, i, m, hop)
           short == {m \in Nat : ~Follows(m)}
<1> SUFFICES ASSUME short # {} PROVE FALSE
  OBVIOUS
<1>1. PICK m \in short : \A other \in short : ~(<<other, m>> \in OpToRel(<, Nat))
  BY WFMin, NatLessThanWellFounded
<1>2. m # 0
  <2>1. Follows(0)
    <3> DEFINE hop == [k \in 0..0 |-> i]
    <3>1. hop = [k \in 0..0 |->
              IF k = 0 THEN i
              ELSE IF merges[hop[k - 1]] = NoIssue THEN hop[k - 1] ELSE merges[hop[k - 1]]]
      OBVIOUS
    <3> HIDE DEF hop
    <3> QED BY <3>1
  <2> QED BY <2>1
<1>3. m \in Nat /\ m - 1 \in Nat /\ m - 1 < m
  BY <1>2
<1>4. Follows(m - 1)
  <2>1. ~(m - 1 \in short)
    BY <1>1, <1>3 DEF OpToRel
  <2> QED BY <1>3, <2>1
<1>5. PICK hop : hop = [k \in 0..m - 1 |->
              IF k = 0 THEN i
              ELSE IF merges[hop[k - 1]] = NoIssue THEN hop[k - 1] ELSE merges[hop[k - 1]]]
  BY <1>4
<1> DEFINE last == hop[m - 1]
           longer == [k \in 0..m |-> IF k < m THEN hop[k]
                                     ELSE IF merges[last] = NoIssue THEN last ELSE merges[last]]
<1>6. ASSUME NEW k \in 0..m
      PROVE  longer[k] = IF k = 0 THEN i
                         ELSE IF merges[longer[k - 1]] = NoIssue THEN longer[k - 1]
                              ELSE merges[longer[k - 1]]
  <2>1. CASE k = m
    <3>1. m - 1 \in 0..m /\ longer[m - 1] = last /\ k # 0
      BY <1>2, <1>3, <2>1
    <3>2. longer[k] = IF merges[last] = NoIssue THEN last ELSE merges[last]
      BY <1>3, <2>1
    <3> QED BY <2>1, <3>1, <3>2
  <2>2. CASE k # m /\ k # 0
    <3>1. k \in 0..m - 1 /\ k - 1 \in 0..m /\ k - 1 < m
      BY <1>3, <2>2
    <3>2. longer[k] = hop[k] /\ longer[k - 1] = hop[k - 1]
      BY <1>3, <2>2, <3>1
    <3>3. hop[k] = IF merges[hop[k - 1]] = NoIssue THEN hop[k - 1] ELSE merges[hop[k - 1]]
      BY <1>5, <2>2, <3>1
    <3> QED BY <2>2, <3>2, <3>3
  <2>3. CASE k # m /\ k = 0
    <3>1. longer[0] = hop[0] /\ hop[0] = i
      BY <1>2, <1>3, <1>5
    <3> QED BY <2>3, <3>1
  <2> QED BY <2>1, <2>2, <2>3
<1>7. longer = [k \in 0..m |-> IF k = 0 THEN i
                               ELSE IF merges[longer[k - 1]] = NoIssue THEN longer[k - 1]
                                    ELSE merges[longer[k - 1]]]
  <2> HIDE DEF last
  <2>1. longer = [k \in 0..m |-> longer[k]]
    OBVIOUS
  <2> HIDE DEF longer
  <2> QED BY <1>6, <2>1
<1> HIDE DEF longer
<1>8. Follows(m)
  BY <1>7
<1> QED BY <1>1, <1>8

LEMMA HopsGo ==
  ASSUME NEW merges, NEW i
  PROVE  /\ Hops(merges, i)[0] = i
         /\ \A k \in 1..MaxMergeDepth :
              Hops(merges, i)[k] = IF merges[Hops(merges, i)[k - 1]] = NoIssue THEN Hops(merges, i)[k - 1]
                                   ELSE merges[Hops(merges, i)[k - 1]]
<1> DEFINE hop[n \in 0..MaxMergeDepth] ==
             IF n = 0 THEN i ELSE IF merges[hop[n - 1]] = NoIssue THEN hop[n - 1] ELSE merges[hop[n - 1]]
<1>1. MaxMergeDepth \in Nat
  BY MergeAssumption
<1>2. hop = [n \in 0..MaxMergeDepth |->
               IF n = 0 THEN i ELSE IF merges[hop[n - 1]] = NoIssue THEN hop[n - 1] ELSE merges[hop[n - 1]]]
  <2>1. \E walk : walk = [n \in 0..MaxMergeDepth |->
               IF n = 0 THEN i ELSE IF merges[walk[n - 1]] = NoIssue THEN walk[n - 1] ELSE merges[walk[n - 1]]]
    <3> HIDE DEF hop
    <3>1. \E walk : IsHops(merges, i, MaxMergeDepth, walk)
      BY <1>1, HopsExist
    <3> QED BY <3>1 DEF IsHops
  <2> QED BY <2>1
<1>3. Hops(merges, i) = hop
  BY DEF Hops
<1> HIDE DEF hop
<1>4. hop[0] = i
  BY <1>1, <1>2
<1>5. \A k \in 1..MaxMergeDepth :
        hop[k] = IF merges[hop[k - 1]] = NoIssue THEN hop[k - 1] ELSE merges[hop[k - 1]]
  BY <1>1, <1>2
<1> QED BY <1>3, <1>4, <1>5

(* The links of the table's issues lead to its issues.                     *)
LEMMA FinalIsAnIssue ==
  ASSUME NEW merges \in MgTable, NEW i \in Issue
  PROVE  Final(merges, i) \in Issue
<1> DEFINE hop == Hops(merges, i)
           out == {k \in 0..MaxMergeDepth : hop[k] \notin Issue}
<1>0. MaxMergeDepth \in Nat
  BY MergeAssumption
<1>1. hop[0] = i /\ \A k \in 1..MaxMergeDepth :
        hop[k] = IF merges[hop[k - 1]] = NoIssue THEN hop[k - 1] ELSE merges[hop[k - 1]]
  BY HopsGo
<1> HIDE DEF hop
<1>2. out = {}
  <2> SUFFICES ASSUME out # {} PROVE FALSE
    OBVIOUS
  <2>1. out \subseteq Nat
    BY <1>0
  <2>2. PICK m \in out : \A other \in out : ~(<<other, m>> \in OpToRel(<, Nat))
    BY <2>1, WFMin, NatLessThanWellFounded
  <2>3. m \in 1..MaxMergeDepth /\ m - 1 \in 0..MaxMergeDepth /\ m - 1 \in Nat /\ m - 1 < m /\ m \in Nat
    <3>1. m \in 0..MaxMergeDepth /\ hop[m] \notin Issue
      BY <2>2
    <3>2. m # 0
      BY <1>1, <3>1
    <3> QED BY <1>0, <3>1, <3>2
  <2>4. m - 1 \notin out
    BY <2>2, <2>3 DEF OpToRel
  <2>5. hop[m - 1] \in Issue
    BY <2>3, <2>4
  <2>6. hop[m] \in Issue
    BY <1>1, <2>3, <2>5 DEF MgTable
  <2> QED BY <2>2, <2>6
<1>3. hop[MaxMergeDepth] \in Issue
  BY <1>0, <1>2
<1> QED BY <1>3 DEF Final, hop

(* To take a link away leaves the others where they are: who came by it    *)
(* now ends there.                                                         *)
LEMMA UnmergedStillEnds ==
  ASSUME NEW merges \in MgTable, NEW s \in Issue, NEW i \in Issue, Ends(merges, i)
  PROVE  Ends([merges EXCEPT ![s] = NoIssue], i)
<1> DEFINE less == [merges EXCEPT ![s] = NoIssue]
           hop == Hops(merges, i)
           new == Hops(less, i)
           off == {k \in 0..MaxMergeDepth : ~(new[k] \in Issue /\ (new[k] = hop[k] \/ new[k] = s))}
<1>0. MaxMergeDepth \in Nat
  BY MergeAssumption
<1>1. hop[0] = i /\ \A k \in 1..MaxMergeDepth :
        hop[k] = IF merges[hop[k - 1]] = NoIssue THEN hop[k - 1] ELSE merges[hop[k - 1]]
  BY HopsGo
<1>2. new[0] = i /\ \A k \in 1..MaxMergeDepth :
        new[k] = IF less[new[k - 1]] = NoIssue THEN new[k - 1] ELSE less[new[k - 1]]
  <2> HIDE DEF less
  <2> QED BY HopsGo
<1>3. less[s] = NoIssue /\ \A x \in Issue : x # s => less[x] = merges[x]
  BY DEF MgTable
<1> HIDE DEF hop, new, less
<1>4. off = {}
  <2> SUFFICES ASSUME off # {} PROVE FALSE
    OBVIOUS
  <2>1. off \subseteq Nat
    BY <1>0
  <2>2. PICK m \in off : \A other \in off : ~(<<other, m>> \in OpToRel(<, Nat))
    BY <2>1, WFMin, NatLessThanWellFounded
  <2>3. m # 0
    BY <1>1, <1>2, <2>2
  <2>4. m \in 1..MaxMergeDepth /\ m - 1 \in 0..MaxMergeDepth /\ m - 1 \in Nat /\ m - 1 < m /\ m \in Nat
    <3>1. m \in 0..MaxMergeDepth
      BY <2>2
    <3> QED BY <1>0, <2>3, <3>1
  <2>5. m - 1 \notin off
    BY <2>2, <2>4 DEF OpToRel
  <2>6. new[m - 1] \in Issue /\ (new[m - 1] = hop[m - 1] \/ new[m - 1] = s)
    BY <2>4, <2>5
  <2>7. new[m] \in Issue /\ (new[m] = hop[m] \/ new[m] = s)
    <3>1. CASE new[m - 1] = s
      BY <1>2, <1>3, <2>4, <3>1
    <3>2. CASE new[m - 1] # s
      <4>1. less[new[m - 1]] = merges[new[m - 1]] /\ new[m - 1] = hop[m - 1]
        BY <1>3, <2>6, <3>2
      <4>2. new[m] = hop[m]
        BY <1>1, <1>2, <2>4, <4>1
      <4>3. new[m] \in Issue
        BY <1>1, <2>4, <2>6, <4>1, <4>2 DEF MgTable
      <4> QED BY <4>2, <4>3
    <3> QED BY <3>1, <3>2
  <2> QED BY <2>2, <2>7
<1>5. new[MaxMergeDepth] \in Issue /\ (new[MaxMergeDepth] = hop[MaxMergeDepth] \/ new[MaxMergeDepth] = s)
  BY <1>0, <1>4
<1>6. merges[hop[MaxMergeDepth]] = NoIssue
  BY DEF Ends, Final, hop
<1>7. less[new[MaxMergeDepth]] = NoIssue
  BY <1>3, <1>5, <1>6
<1> QED BY <1>7 DEF Ends, Final, new, less

MgRequest == [at : {"idle", "merge", "write", "written"}, source : Issue \cup {NoIssue}, target : Issue \cup {NoIssue}]

MgLookup == [at : {"idle", "fetched"}, read : MgTable, current : BOOLEAN]

MgTyped ==
  /\ merged \in MgTable /\ (mergeCache = Unfetched \/ mergeCache \in MgTable)
  /\ merging \in [Merger -> MgRequest] /\ lookup \in [Lookup -> MgLookup] /\ mergeDoubt \in BOOLEAN
  /\ \A m \in Merger :
       /\ merging[m].at # "idle" => merging[m].source \in Issue
       /\ merging[m].at = "merge" => merging[m].target \in Issue

\* The lock of the site.
MgOneRequest ==
  \A m, n \in Merger : merging[m].at # "idle" /\ merging[n].at # "idle" => m = n

\* What is to be written leaves a forest.
MgWritesAForest ==
  \A m \in Merger :
    merging[m].at = "write" =>
      \A i \in Issue : Ends([merged EXCEPT ![merging[m].source] = merging[m].target], i)

MgBehind == mergeDoubt \/ \E m \in Merger : merging[m].at = "written"

\* What may be cached is the table, or waits for the invalidation.
MgReadFresh ==
  \A l \in Lookup : lookup[l].at = "fetched" /\ lookup[l].current => lookup[l].read = merged \/ MgBehind

MgInv ==
  /\ MgTyped /\ MgOneRequest /\ MergesAreAForest /\ MgWritesAForest /\ MgReadFresh
  /\ mergeCache = Unfetched \/ mergeCache = merged \/ MgBehind

LEMMA MgInitially == MergeInit => MgInv
<1> SUFFICES ASSUME MergeInit PROVE MgInv
  OBVIOUS
<1> USE DEF MergeInit
<1>1. NoMerges \in MgTable /\ \A i \in Issue : NoMerges[i] = NoIssue
  BY DEF NoMerges, MgTable
<1>2. MgTyped
  BY <1>1, MergeAssumption DEF MgTyped, MgRequest, MgLookup, NoRequest, NoLookup
<1>3. MergesAreAForest
  <2>1. ASSUME NEW i \in Issue PROVE NoMerges[Final(NoMerges, i)] = NoIssue
    BY <1>1, FinalIsAnIssue
  <2> QED BY <2>1 DEF MergesAreAForest, Ends
<1>4. MgOneRequest /\ MgWritesAForest /\ MgReadFresh
  BY DEF MgOneRequest, MgWritesAForest, MgReadFresh, NoRequest, NoLookup
<1> QED BY <1>2, <1>3, <1>4 DEF MgInv

\* A request begins, or goes on, with the table as it is.
LEMMA MgRequestMoves ==
  ASSUME MgInv, NEW m \in Merger, NEW request \in MgRequest,
         merging' = [merging EXCEPT ![m] = request], UNCHANGED merged,
         merging[m].at # "idle" \/ SiteFree, merging[m].at # "written",
         request.at # "written",
         request.at # "idle" => request.source \in Issue,
         request.at = "merge" => request.target \in Issue,
         request.at = "write" => \A i \in Issue : Ends([merged EXCEPT ![request.source] = request.target], i)
  PROVE  /\ merging' \in [Merger -> MgRequest]
         /\ \A n \in Merger : /\ merging'[n].at # "idle" => merging'[n].source \in Issue
                              /\ merging'[n].at = "merge" => merging'[n].target \in Issue
         /\ MgOneRequest' /\ MgWritesAForest'
         /\ (\E n \in Merger : merging[n].at = "written") => \E n \in Merger : merging'[n].at = "written"
<1>1. MgTyped /\ MgOneRequest /\ MgWritesAForest
  BY DEF MgInv
<1>2. merging \in [Merger -> MgRequest] /\ merging' \in [Merger -> MgRequest] /\ merging'[m] = request
      /\ \A n \in Merger : n # m => merging'[n] = merging[n]
  BY <1>1 DEF MgTyped
<1>3. MgOneRequest'
  BY <1>1, <1>2 DEF MgOneRequest, SiteFree
<1>4. MgWritesAForest'
  BY <1>1, <1>2 DEF MgWritesAForest
<1>5. \A n \in Merger : /\ merging'[n].at # "idle" => merging'[n].source \in Issue
                        /\ merging'[n].at = "merge" => merging'[n].target \in Issue
  BY <1>1, <1>2 DEF MgTyped
<1>6. (\E n \in Merger : merging[n].at = "written") => \E n \in Merger : merging'[n].at = "written"
  BY <1>2
<1> QED BY <1>2, <1>3, <1>4, <1>5, <1>6

LEMMA MgNothing == NoRequest \in MgRequest /\ NoRequest.at = "idle" /\ NoLookup \in MgLookup /\ NoLookup.at = "idle"
BY DEF NoRequest, MgRequest, NoLookup, NoMerges, MgLookup, MgTable

LEMMA MgInvalidates ==
  ASSUME MgTyped, Invalidate
  PROVE  /\ mergeCache' = Unfetched /\ lookup' \in [Lookup -> MgLookup] /\ mergeDoubt' = FALSE
         /\ MgReadFresh'
<1>1. lookup' = [l \in Lookup |-> [lookup[l] EXCEPT !.current = FALSE]]
  BY DEF Invalidate
<1>2. \A l \in Lookup : [lookup[l] EXCEPT !.current = FALSE] \in MgLookup /\ [lookup[l] EXCEPT !.current = FALSE].current = FALSE
  BY DEF MgTyped, MgLookup
<1>3. lookup' \in [Lookup -> MgLookup] /\ \A l \in Lookup : lookup'[l].current = FALSE
  BY <1>1, <1>2
<1> QED BY <1>3 DEF Invalidate, MgReadFresh

LEMMA MgMergeIssues ==
  ASSUME MgInv, NEW m \in Merger, NEW source \in Issue, NEW target \in Issue, MergeIssues(m, source, target)
  PROVE  MgInv'
<1> DEFINE request == [at |-> "merge", source |-> source, target |-> target]
<1>1. request \in MgRequest /\ request.at = "merge" /\ request.source \in Issue /\ request.target \in Issue
  BY DEF MgRequest
<1>2. merging[m].at = "idle" /\ SiteFree /\ merging' = [merging EXCEPT ![m] = request] /\ UNCHANGED merged /\ Invalidate
  BY DEF MergeIssues
<1> HIDE DEF request
<1>3. /\ merging' \in [Merger -> MgRequest]
      /\ \A n \in Merger : /\ merging'[n].at # "idle" => merging'[n].source \in Issue
                           /\ merging'[n].at = "merge" => merging'[n].target \in Issue
      /\ MgOneRequest' /\ MgWritesAForest'
  BY <1>1, <1>2, MgRequestMoves
<1>4. mergeCache' = Unfetched /\ lookup' \in [Lookup -> MgLookup] /\ mergeDoubt' = FALSE /\ MgReadFresh'
  BY <1>2, MgInvalidates DEF MgInv
<1>5. MgTyped' /\ MergesAreAForest'
  BY <1>2, <1>3, <1>4 DEF MgInv, MgTyped, MergesAreAForest
<1> QED BY <1>3, <1>4, <1>5 DEF MgInv

\* What is left when a request moves and nothing else does.
LEMMA MgOnlyRequest ==
  ASSUME MgInv, UNCHANGED <<merged, mergeCache, lookup, mergeDoubt>>,
         merging' \in [Merger -> MgRequest],
         \A n \in Merger : /\ merging'[n].at # "idle" => merging'[n].source \in Issue
                           /\ merging'[n].at = "merge" => merging'[n].target \in Issue,
         MgOneRequest', MgWritesAForest',
         (\E n \in Merger : merging[n].at = "written") => \E n \in Merger : merging'[n].at = "written"
  PROVE  MgInv'
<1>1. MgTyped' /\ MergesAreAForest'
  BY DEF MgInv, MgTyped, MergesAreAForest
<1>2. MgBehind => MgBehind'
  BY DEF MgBehind
<1>3. MgReadFresh'
  BY <1>2 DEF MgInv, MgReadFresh
<1>4. (mergeCache = Unfetched \/ mergeCache = merged \/ MgBehind)'
  BY <1>2 DEF MgInv
<1> QED BY <1>1, <1>3, <1>4 DEF MgInv

LEMMA MgValidated ==
  ASSUME MgInv, NEW m \in Merger, MergeValidated(m)
  PROVE  MgInv'
<1> DEFINE s == merging[m].source
           t == Final(merged, merging[m].target)
<1>1. merging[m].at = "merge" /\ UNCHANGED <<merged, mergeCache, lookup, mergeDoubt>>
  BY DEF MergeValidated
<1>2. merged \in MgTable /\ merging[m] \in MgRequest /\ s \in Issue /\ merging[m].target \in Issue
      /\ merging \in [Merger -> MgRequest]
  BY <1>1 DEF MgInv, MgTyped
<1>3. t \in Issue
  BY <1>2, FinalIsAnIssue
<1>4. CASE MergeAllowed(s, merging[m].target)
           /\ merging' = [merging EXCEPT ![m].at = "write", ![m].target = t]
  <2> DEFINE request == [at |-> "write", source |-> s, target |-> t]
  <2>1. merging' = [merging EXCEPT ![m] = request]
    <3> HIDE DEF t
    <3> DEFINE moved == [[merging EXCEPT ![m].at = "write"] EXCEPT ![m].target = t]
    <3>1. merging' = moved
      BY <1>4
    <3>2. moved = [merging EXCEPT ![m] = [[merging[m] EXCEPT !.at = "write"] EXCEPT !.target = t]]
      BY <1>2
    <3>3. [[merging[m] EXCEPT !.at = "write"] EXCEPT !.target = t] = request
      <4> DEFINE old == merging[m].target
                 written == [at |-> "write", source |-> s, target |-> old]
      <4>1. [merging[m] EXCEPT !.at = "write"] = written
        BY <1>2 DEF MgRequest
      <4>2. [written EXCEPT !.target = t] = request
        <5> HIDE DEF s, old
        <5> QED OBVIOUS
      <4> QED BY <4>1, <4>2, Zenon
    <3> QED BY <3>1, <3>2, <3>3, Zenon
  <2>2. \A i \in Issue : Ends([merged EXCEPT ![s] = t], i)
    BY <1>4 DEF MergeAllowed, DepthAllowed
  <2>3. request \in MgRequest /\ request.at = "write" /\ request.source = s /\ request.target = t
    BY <1>2, <1>3 DEF MgRequest
  <2> HIDE DEF request, s, t
  <2>4. /\ merging' \in [Merger -> MgRequest]
        /\ \A n \in Merger : /\ merging'[n].at # "idle" => merging'[n].source \in Issue
                             /\ merging'[n].at = "merge" => merging'[n].target \in Issue
        /\ MgOneRequest' /\ MgWritesAForest'
        /\ (\E n \in Merger : merging[n].at = "written") => \E n \in Merger : merging'[n].at = "written"
    BY <1>1, <1>2, <2>1, <2>2, <2>3, MgRequestMoves
  <2> QED BY <1>1, <2>4, MgOnlyRequest
<1>5. CASE RequestOver(m)
  <2>1. /\ merging' \in [Merger -> MgRequest]
        /\ \A n \in Merger : /\ merging'[n].at # "idle" => merging'[n].source \in Issue
                             /\ merging'[n].at = "merge" => merging'[n].target \in Issue
        /\ MgOneRequest' /\ MgWritesAForest'
        /\ (\E n \in Merger : merging[n].at = "written") => \E n \in Merger : merging'[n].at = "written"
    BY <1>1, <1>5, MgNothing, MgRequestMoves DEF RequestOver
  <2> QED BY <1>1, <2>1, MgOnlyRequest
<1> QED BY <1>4, <1>5 DEF MergeValidated

LEMMA MgUnmerge ==
  ASSUME MgInv, NEW m \in Merger, NEW source \in Issue, UnmergeIssue(m, source)
  PROVE  MgInv'
<1> DEFINE request == [at |-> "write", source |-> source, target |-> NoIssue]
<1>1. merging[m].at = "idle" /\ SiteFree /\ UNCHANGED <<merged, mergeCache, lookup, mergeDoubt>>
      /\ merging' = [merging EXCEPT ![m] = request]
  BY DEF UnmergeIssue
<1>2. request \in MgRequest /\ request.at = "write" /\ request.source = source /\ request.target = NoIssue
  BY DEF MgRequest
<1>3. \A i \in Issue : Ends([merged EXCEPT ![source] = NoIssue], i)
  BY UnmergedStillEnds DEF MgInv, MgTyped, MergesAreAForest
<1> HIDE DEF request
<1>4. /\ merging' \in [Merger -> MgRequest]
      /\ \A n \in Merger : /\ merging'[n].at # "idle" => merging'[n].source \in Issue
                           /\ merging'[n].at = "merge" => merging'[n].target \in Issue
      /\ MgOneRequest' /\ MgWritesAForest'
      /\ (\E n \in Merger : merging[n].at = "written") => \E n \in Merger : merging'[n].at = "written"
  BY <1>1, <1>2, <1>3, MgRequestMoves
<1> QED BY <1>1, <1>4, MgOnlyRequest

LEMMA MgPut ==
  ASSUME MgInv, NEW m \in Merger, PutMerge(m)
  PROVE  MgInv'
<1> DEFINE s == merging[m].source
           t == merging[m].target
<1>1. merging[m].at = "write" /\ UNCHANGED <<mergeCache, lookup>>
  BY DEF PutMerge
<1>2. merged \in MgTable /\ merging[m] \in MgRequest /\ s \in Issue /\ t \in Issue \cup {NoIssue}
      /\ merging \in [Merger -> MgRequest]
  BY <1>1 DEF MgInv, MgTyped, MgRequest
<1>3. \A n \in Merger : n # m => merging[n].at = "idle"
  BY <1>1 DEF MgInv, MgOneRequest
<1>4. CASE RequestOver(m) /\ UNCHANGED <<merged, mergeDoubt>>
  <2>1. /\ merging' \in [Merger -> MgRequest]
        /\ \A n \in Merger : /\ merging'[n].at # "idle" => merging'[n].source \in Issue
                             /\ merging'[n].at = "merge" => merging'[n].target \in Issue
        /\ MgOneRequest' /\ MgWritesAForest'
        /\ (\E n \in Merger : merging[n].at = "written") => \E n \in Merger : merging'[n].at = "written"
    BY <1>1, <1>4, MgNothing, MgRequestMoves DEF RequestOver
  <2> QED BY <1>1, <1>4, <2>1, MgOnlyRequest
<1>5. ASSUME merged' = [merged EXCEPT ![s] = t],
             \/ RequestAt(m, "written") /\ UNCHANGED mergeDoubt
             \/ RequestOver(m) /\ mergeDoubt' = TRUE
      PROVE  MgInv'
  <2>1. merged' \in MgTable
    BY <1>2, <1>5 DEF MgTable
  <2>2. /\ merging' \in [Merger -> MgRequest] /\ \A n \in Merger : n # m => merging'[n] = merging[n]
        /\ \/ merging'[m].at = "written" /\ merging'[m].source = s /\ mergeDoubt' = mergeDoubt
           \/ merging'[m].at = "idle" /\ mergeDoubt' = TRUE
    <3>1. CASE RequestAt(m, "written") /\ UNCHANGED mergeDoubt
      BY <1>2, <3>1 DEF RequestAt, MgRequest
    <3>2. CASE RequestOver(m) /\ mergeDoubt' = TRUE
      BY <1>2, <3>2, MgNothing DEF RequestOver
    <3> QED BY <1>5, <3>1, <3>2
  <2>3. MgBehind'
    BY <2>2 DEF MgBehind
  <2>4. MergesAreAForest'
    BY <1>1, <1>5 DEF MgInv, MgWritesAForest, MergesAreAForest
  <2>5. MgTyped'
    BY <1>1, <1>2, <1>3, <2>1, <2>2 DEF MgInv, MgTyped
  <2>6. MgOneRequest' /\ MgWritesAForest'
    BY <1>3, <2>2 DEF MgOneRequest, MgWritesAForest
  <2> QED BY <2>3, <2>4, <2>5, <2>6 DEF MgInv, MgReadFresh
<1> QED BY <1>4, <1>5 DEF PutMerge

LEMMA MgAnswered ==
  ASSUME MgInv, NEW m \in Merger, MergeAnswered(m)
  PROVE  MgInv'
<1>1. merging[m].at = "written" /\ Invalidate /\ UNCHANGED merged /\ merging' = [merging EXCEPT ![m] = NoRequest]
  BY DEF MergeAnswered, RequestOver
<1>2. mergeCache' = Unfetched /\ lookup' \in [Lookup -> MgLookup] /\ mergeDoubt' = FALSE /\ MgReadFresh'
  BY <1>1, MgInvalidates DEF MgInv
<1>3. merging' \in [Merger -> MgRequest] /\ merging'[m].at = "idle" /\ \A n \in Merger : n # m => merging'[n] = merging[n]
  BY <1>1, MgNothing DEF MgInv, MgTyped
<1>4. MgTyped' /\ MergesAreAForest'
  BY <1>1, <1>2, <1>3 DEF MgInv, MgTyped, MergesAreAForest
<1>5. MgOneRequest' /\ MgWritesAForest'
  BY <1>1, <1>3 DEF MgInv, MgOneRequest, MgWritesAForest
<1> QED BY <1>2, <1>4, <1>5 DEF MgInv

LEMMA MgFetch ==
  ASSUME MgInv, NEW l \in Lookup, FetchMerges(l)
  PROVE  MgInv'
<1> DEFINE found == [at |-> "fetched", read |-> merged, current |-> TRUE]
<1>1. lookup' = [lookup EXCEPT ![l] = found] /\ UNCHANGED <<merged, mergeCache, merging, mergeDoubt>>
  BY DEF FetchMerges
<1>2. found \in MgLookup /\ found.read = merged
  BY DEF MgInv, MgTyped, MgLookup
<1> HIDE DEF found
<1>3. lookup' \in [Lookup -> MgLookup] /\ lookup'[l] = found /\ \A o \in Lookup : o # l => lookup'[o] = lookup[o]
  BY <1>1, <1>2 DEF MgInv, MgTyped
<1>4. MgTyped' /\ MergesAreAForest' /\ MgOneRequest' /\ MgWritesAForest' /\ (MgBehind' <=> MgBehind)
  BY <1>1, <1>3 DEF MgInv, MgTyped, MergesAreAForest, MgOneRequest, MgWritesAForest, MgBehind
<1>5. MgReadFresh'
  BY <1>1, <1>2, <1>3, <1>4 DEF MgInv, MgReadFresh
<1> QED BY <1>1, <1>4, <1>5 DEF MgInv

LEMMA MgCaches ==
  ASSUME MgInv, NEW l \in Lookup, CacheMerges(l)
  PROVE  MgInv'
<1>1. /\ lookup[l].at = "fetched" /\ UNCHANGED <<merged, merging, mergeDoubt>>
      /\ mergeCache' = (IF lookup[l].current THEN lookup[l].read ELSE mergeCache)
      /\ lookup' = [lookup EXCEPT ![l] = NoLookup]
  BY DEF CacheMerges, FetchCurrent
<1>2. lookup' \in [Lookup -> MgLookup] /\ lookup'[l].at = "idle" /\ \A o \in Lookup : o # l => lookup'[o] = lookup[o]
  BY <1>1, MgNothing DEF MgInv, MgTyped
<1>3. mergeCache' = Unfetched \/ mergeCache' \in MgTable
  BY <1>1 DEF MgInv, MgTyped, MgLookup
<1>4. MgTyped' /\ MergesAreAForest' /\ MgOneRequest' /\ MgWritesAForest' /\ (MgBehind' <=> MgBehind)
  BY <1>1, <1>2, <1>3 DEF MgInv, MgTyped, MergesAreAForest, MgOneRequest, MgWritesAForest, MgBehind
<1>5. MgReadFresh'
  BY <1>1, <1>2, <1>4 DEF MgInv, MgReadFresh
<1>6. (mergeCache = Unfetched \/ mergeCache = merged \/ MgBehind)'
  BY <1>1, <1>4 DEF MgInv, MgReadFresh
<1> QED BY <1>4, <1>5, <1>6 DEF MgInv

LEMMA MgExpires ==
  ASSUME MgInv, MergeCacheExpires \/ UNCHANGED mergeVars
  PROVE  MgInv'
<1>1. UNCHANGED <<merged, merging, lookup, mergeDoubt>> /\ (mergeCache' = Unfetched \/ mergeCache' = mergeCache)
  BY DEF MergeCacheExpires, mergeVars
<1>2. MgTyped' /\ MergesAreAForest' /\ MgOneRequest' /\ MgWritesAForest' /\ (MgBehind' <=> MgBehind)
  BY <1>1 DEF MgInv, MgTyped, MergesAreAForest, MgOneRequest, MgWritesAForest, MgBehind
<1>3. MgReadFresh'
  BY <1>1, <1>2 DEF MgInv, MgReadFresh
<1> QED BY <1>1, <1>2, <1>3 DEF MgInv

(* Merging issues, internal/errors/merge.go: whatever requests run side by *)
(* side and whichever writes are answered, every issue resolves within the *)
(* depth to one that is not merged away, and the cache is the table but    *)
(* while a request has written and not yet invalidated, or after a write   *)
(* that lost its answer.                                                   *)
THEOREM MergeTheorem == MergeSpec => [](MergeTypeOK /\ MergesSound)
<1>1. MergeInit => MgInv
  BY MgInitially
<1>2. MgInv /\ [MergeNext]_mergeVars => MgInv'
  BY MgMergeIssues, MgValidated, MgUnmerge, MgPut, MgAnswered, MgFetch, MgCaches, MgExpires DEF MergeNext
<1>3. MgInv => MergeTypeOK /\ MergesSound
  <2> SUFFICES ASSUME MgInv PROVE MergeTypeOK /\ MergesSound
    OBVIOUS
  <2>1. MergeTypeOK
    BY DEF MgInv, MgTyped, MgTable, MgRequest, MgLookup, MergeTypeOK
  <2>2. MergesAreAForest /\ MergeCacheFresh
    BY DEF MgInv, MgBehind, MergeCacheFresh
  <2> QED BY <2>1, <2>2 DEF MergesSound
<1> QED BY <1>1, <1>2, <1>3, PTL DEF MergeSpec

-----------------------------------------------------------------------------
(***************************************************************************)
(* The spike detector.                                                     *)
(***************************************************************************)

DtState == [start : 0..MaxSpikeTime, trail : Seq(0..MaxBurst), current : 0..MaxBurst,
            lastFire : NeverFired..MaxSpikeTime, touched : 0..MaxSpikeTime]

\* What is tracked of an issue, at a time.
DtOK(i, st, now) ==
  /\ st \in DtState /\ Len(st.trail) =< TrailWindows
  /\ st.start =< st.touched /\ st.touched =< now /\ st.lastFire =< st.touched
  /\ st.touched - st.start < WindowSpan
  /\ st.lastFire # NeverFired => <<i, st.lastFire>> \in fired

\* What fired is remembered, or an hour ago.
DtGated(e) ==
  \/ spikeTime - e[2] >= Hour
  \/ e[1] \in DOMAIN trackedSpikes /\ e[2] =< trackedSpikes[e[1]].lastFire

DtInv ==
  /\ spikeTime \in 0..MaxSpikeTime
  /\ DOMAIN trackedSpikes \subseteq SpikeIssue /\ IsFiniteSet(DOMAIN trackedSpikes)
  /\ Cardinality(DOMAIN trackedSpikes) =< MaxTracked
  /\ \A i \in DOMAIN trackedSpikes : DtOK(i, trackedSpikes[i], spikeTime)
  /\ fired \subseteq SpikeIssue \X (0..MaxSpikeTime)
  /\ \A e \in fired : e[2] =< spikeTime /\ DtGated(e)
  /\ OncePerHour

LEMMA DtConstants ==
  /\ TrailWindows \in Nat /\ MaxTracked \in Nat /\ MaxSpikeTime \in Nat /\ MaxBurst \in Nat
  /\ WindowSpan \in Nat \ {0} /\ Hour \in Nat
BY DetectorAssumption DEF Hour

LEMMA MaxOfTwo ==
  ASSUME NEW a \in Int, NEW b \in Int
  PROVE  Max({a, b}) \in Int /\ Max({a, b}) >= a /\ Max({a, b}) >= b /\ Max({a, b}) \in {a, b}
<1>1. \E x \in {a, b} : \A y \in {a, b} : x >= y
  OBVIOUS
<1>2. Max({a, b}) \in {a, b} /\ \A y \in {a, b} : Max({a, b}) >= y
  BY <1>1 DEF Max
<1> QED BY <1>2

(* Of a trail as many windows are left as make an hour.                    *)
LEMMA TrailIsCut ==
  ASSUME NEW S, NEW trail \in Seq(S), NEW tw \in Nat
  PROVE  LET cut == SubSeq(trail, Max({1, Len(trail) - tw + 1}), Len(trail))
         IN  cut \in Seq(S) /\ Len(cut) =< tw
<1> DEFINE n == Len(trail)
           m == Max({1, n - tw + 1})
<1>1. n \in Nat
  OBVIOUS
<1>2. m \in Int /\ m >= 1 /\ m >= n - tw + 1
  <2> DEFINE b == n - tw + 1
  <2>1. b \in Int
    BY <1>1
  <2> HIDE DEF b
  <2>2. Max({1, b}) \in Int /\ Max({1, b}) >= 1 /\ Max({1, b}) >= b
    <3>1. 1 \in Int
      OBVIOUS
    <3> QED BY <2>1, <3>1, MaxOfTwo, Zenon
  <2> QED BY <2>2, Zenon DEF b
<1> HIDE DEF m
<1>3. \A k \in m..n : trail[k] \in S
  BY <1>1, <1>2, ElementOfSeq
<1>4. SubSeq(trail, m, n) \in Seq(S) /\ Len(SubSeq(trail, m, n)) = (IF m =< n THEN n - m + 1 ELSE 0)
  BY <1>1, <1>2, <1>3, SubSeqProperties
<1>5. Len(SubSeq(trail, m, n)) =< tw
  BY <1>1, <1>2, <1>4
<1> QED BY <1>4, <1>5 DEF m

LEMMA DtRolls ==
  ASSUME NEW st \in DtState, Len(st.trail) =< TrailWindows, spikeTime \in 0..MaxSpikeTime, st.start =< spikeTime
  PROVE  /\ Rolled(st) \in DtState /\ Len(Rolled(st).trail) =< TrailWindows
         /\ Rolled(st).start =< spikeTime /\ spikeTime - Rolled(st).start < WindowSpan
         /\ Rolled(st).lastFire = st.lastFire /\ Rolled(st).touched = st.touched
<1> DEFINE whole == (spikeTime - st.start) \div WindowSpan
           windows == [w \in 1..whole |-> IF w = 1 THEN st.current ELSE 0]
           trail == st.trail \o windows
           cut == SubSeq(trail, Max({1, Len(trail) - TrailWindows + 1}), Len(trail))
           start == st.start + whole * WindowSpan
<1>1. /\ st.start \in 0..MaxSpikeTime /\ st.trail \in Seq(0..MaxBurst) /\ st.current \in 0..MaxBurst
      /\ st.start \in Nat /\ spikeTime \in Nat
  BY DtConstants DEF DtState
<1>2. whole \in Nat /\ whole * WindowSpan =< spikeTime - st.start /\ spikeTime - st.start < whole * WindowSpan + WindowSpan
      /\ whole * WindowSpan \in Nat
  <2> DEFINE past == spikeTime - st.start
  <2>1. past \in Nat /\ WindowSpan \in Nat \ {0}
    BY <1>1, DtConstants
  <2> HIDE DEF past
  <2>2. /\ past \div WindowSpan \in Nat /\ (past \div WindowSpan) * WindowSpan =< past
        /\ past < (past \div WindowSpan) * WindowSpan + WindowSpan
        /\ (past \div WindowSpan) * WindowSpan \in Nat
    BY <2>1
  <2> QED BY <2>2 DEF past
<1>3. Rolled(st) = IF whole = 0 THEN st
                   ELSE [st EXCEPT !.start = @ + whole * WindowSpan, !.current = 0, !.trail = cut]
  BY DEF Rolled
<1> HIDE DEF whole
<1>4. CASE whole = 0
  BY <1>1, <1>2, <1>3, <1>4, DtConstants
<1>5. CASE whole # 0
  <2>1. windows \in Seq(0..MaxBurst)
    BY <1>1, <1>2, DtConstants
  <2> HIDE DEF windows
  <2>2. trail \in Seq(0..MaxBurst)
    BY <1>1, <2>1, ConcatProperties
  <2> HIDE DEF trail
  <2>3. cut \in Seq(0..MaxBurst) /\ Len(cut) =< TrailWindows
    BY <2>2, DtConstants, TrailIsCut
  <2> HIDE DEF cut
  <2>4. start \in 0..MaxSpikeTime /\ start =< spikeTime /\ spikeTime - start < WindowSpan
    <3> DEFINE past == whole * WindowSpan
    <3>1. past \in Nat /\ past =< spikeTime - st.start /\ spikeTime - st.start < past + WindowSpan
      BY <1>2
    <3> HIDE DEF past
    <3>2. /\ st.start + past \in 0..MaxSpikeTime /\ st.start + past =< spikeTime
          /\ spikeTime - (st.start + past) < WindowSpan
      BY <1>1, <3>1, DtConstants
    <3> QED BY <3>2 DEF past
  <2>5. Rolled(st) = [st EXCEPT !.start = start, !.current = 0, !.trail = cut]
    BY <1>3, <1>5
  <2> HIDE DEF start
  <2>6. 0 \in 0..MaxBurst
    BY DtConstants
  <2>7. /\ Rolled(st) \in DtState /\ Rolled(st).trail = cut /\ Rolled(st).start = start
        /\ Rolled(st).lastFire = st.lastFire /\ Rolled(st).touched = st.touched
    BY <2>3, <2>4, <2>5, <2>6 DEF DtState
  <2> QED BY <2>3, <2>4, <2>7
<1> QED BY <1>4, <1>5

(* An event of the issue, with the states that are left beside it.         *)
LEMMA DtCounts ==
  ASSUME DtInv, NEW i \in SpikeIssue, NEW left \in SUBSET DOMAIN trackedSpikes, CountSpike(i, left),
         UNCHANGED spikeTime,
         i \in DOMAIN trackedSpikes => i \in left,
         \A j \in DOMAIN trackedSpikes \ left : spikeTime - trackedSpikes[j].touched > Hour,
         IsFiniteSet(left \cup {i}), Cardinality(left \cup {i}) =< MaxTracked
  PROVE  DtInv'
<1> DEFINE old == IF i \in left THEN trackedSpikes[i] ELSE FreshSpike
           st == Rolled(old)
           seen == [st EXCEPT !.current = @ + 1, !.touched = spikeTime]
           fires == GateOpen(seen) /\ Crosses(seen)
           new == [seen EXCEPT !.lastFire = IF fires THEN spikeTime ELSE @]
<1>1. spikeTime \in 0..MaxSpikeTime /\ spikeTime \in Nat /\ DOMAIN trackedSpikes \subseteq SpikeIssue
      /\ \A j \in DOMAIN trackedSpikes : DtOK(j, trackedSpikes[j], spikeTime)
  BY DtConstants DEF DtInv
<1>2. /\ old \in DtState /\ Len(old.trail) =< TrailWindows /\ old.start =< spikeTime
      /\ i \in left \/ old.lastFire = NeverFired
      /\ old.lastFire # NeverFired => <<i, old.lastFire>> \in fired
      /\ old.lastFire =< spikeTime
  <2>1. CASE i \in left
    <3>1. DtOK(i, trackedSpikes[i], spikeTime) /\ old = trackedSpikes[i]
      BY <1>1, <2>1
    <3>2. trackedSpikes[i] \in DtState /\ trackedSpikes[i].touched \in Nat /\ trackedSpikes[i].start \in Nat
          /\ trackedSpikes[i].lastFire \in Int
      BY <3>1, DtConstants DEF DtOK, DtState, NeverFired
    <3>3. trackedSpikes[i].start =< spikeTime /\ trackedSpikes[i].lastFire =< spikeTime
      BY <1>1, <3>1, <3>2 DEF DtOK
    <3> QED BY <2>1, <3>1, <3>2, <3>3 DEF DtOK
  <2>2. CASE i \notin left
    <3>1. old = FreshSpike
      BY <2>2
    <3>2. <<>> \in Seq(0..MaxBurst) /\ Len(<<>>) = 0 /\ 0 \in 0..MaxBurst /\ NeverFired \in NeverFired..MaxSpikeTime
      BY DtConstants, EmptySeq DEF NeverFired
    <3>3. /\ FreshSpike \in DtState /\ FreshSpike.trail = <<>> /\ FreshSpike.start = spikeTime
          /\ FreshSpike.lastFire = NeverFired
      BY <1>1, <3>2 DEF FreshSpike, DtState
    <3> QED BY <1>1, <2>2, <3>1, <3>2, <3>3, DtConstants DEF NeverFired
  <2> QED BY <2>1, <2>2
<1> HIDE DEF old
<1>3. /\ st \in DtState /\ Len(st.trail) =< TrailWindows
      /\ st.start =< spikeTime /\ spikeTime - st.start < WindowSpan
      /\ st.lastFire = old.lastFire /\ st.touched = old.touched
  BY <1>1, <1>2, DtRolls
<1>4. seen.current =< MaxBurst
      /\ trackedSpikes' = [j \in left \cup {i} |-> IF j # i THEN trackedSpikes[j] ELSE new]
      /\ fired' = fired \cup IF fires THEN {<<i, spikeTime>>} ELSE {}
  BY DEF CountSpike, old
<1> HIDE DEF st
<1>5. /\ seen.current = st.current + 1 /\ seen.touched = spikeTime /\ seen.start = st.start
      /\ seen.trail = st.trail /\ seen.lastFire = st.lastFire
  BY <1>3 DEF DtState
<1>6. seen \in DtState
  <2>1. st.current + 1 \in 0..MaxBurst
    <3>1. st.current \in 0..MaxBurst
      BY <1>3 DEF DtState
    <3> QED BY <1>4, <1>5, <3>1, DtConstants
  <2> DEFINE current == st.current + 1
  <2>2. seen = [st EXCEPT !.current = current, !.touched = spikeTime]
    BY <1>3 DEF DtState
  <2>3. current \in 0..MaxBurst
    BY <2>1
  <2> HIDE DEF current, seen
  <2> QED BY <1>1, <1>3, <2>2, <2>3 DEF DtState
<1>7. fires => seen.lastFire = NeverFired \/ spikeTime - seen.lastFire >= Hour
  BY DEF GateOpen
<1> HIDE DEF seen, fires
<1>8. /\ new \in DtState /\ new.trail = seen.trail /\ new.start = seen.start /\ new.touched = seen.touched
      /\ new.lastFire = IF fires THEN spikeTime ELSE seen.lastFire
  <2> DEFINE last == IF fires THEN spikeTime ELSE seen.lastFire
  <2>1. last \in NeverFired..MaxSpikeTime
    BY <1>1, <1>6, DtConstants DEF DtState, NeverFired
  <2>2. new = [seen EXCEPT !.lastFire = last]
    BY <1>6 DEF DtState
  <2> HIDE DEF last, new
  <2>3. new \in DtState /\ new.trail = seen.trail /\ new.start = seen.start /\ new.touched = seen.touched
        /\ new.lastFire = last
    BY <1>6, <2>1, <2>2 DEF DtState
  <2> QED BY <2>3 DEF last
<1> HIDE DEF new
<1>9. /\ DOMAIN trackedSpikes' = left \cup {i} /\ trackedSpikes'[i] = new
      /\ \A j \in left : j # i => trackedSpikes'[j] = trackedSpikes[j]
  BY <1>4
<1>10. fired \subseteq fired' /\ (fires => <<i, spikeTime>> \in fired')
       /\ \A e \in fired' : e \in fired \/ (fires /\ e = <<i, spikeTime>>)
  BY <1>4
<1>11. /\ new \in DtState /\ Len(new.trail) =< TrailWindows
       /\ new.start =< new.touched /\ new.touched =< spikeTime /\ new.lastFire =< new.touched
       /\ new.touched - new.start < WindowSpan
       /\ new.lastFire # NeverFired => <<i, new.lastFire>> \in fired'
  <2>1. new.start =< new.touched /\ new.touched =< spikeTime /\ new.touched - new.start < WindowSpan
    BY <1>1, <1>3, <1>5, <1>8
  <2>2. new.lastFire =< new.touched
    BY <1>1, <1>2, <1>3, <1>5, <1>8
  <2>3. new.lastFire # NeverFired => <<i, new.lastFire>> \in fired'
    BY <1>2, <1>3, <1>5, <1>8, <1>10
  <2>4. new \in DtState /\ Len(new.trail) =< TrailWindows
    BY <1>3, <1>5, <1>8
  <2> QED BY <2>1, <2>2, <2>3, <2>4
<1>12. ASSUME NEW j \in left, j # i PROVE DtOK(j, trackedSpikes[j], spikeTime)'
  <2>1. DtOK(j, trackedSpikes[j], spikeTime) /\ trackedSpikes'[j] = trackedSpikes[j]
    BY <1>1, <1>9, <1>12
  <2> QED BY <1>10, <2>1 DEF DtOK
<1>13. \A j \in DOMAIN trackedSpikes' : DtOK(j, trackedSpikes[j], spikeTime)'
  <2>1. ASSUME NEW j \in DOMAIN trackedSpikes' PROVE DtOK(j, trackedSpikes[j], spikeTime)'
    <3>1. CASE j = i
      <4>1. trackedSpikes'[j] = new
        BY <1>9, <3>1
      <4> QED BY <1>11, <3>1, <4>1 DEF DtOK, DtState
    <3>2. CASE j # i
      BY <1>9, <1>12, <3>2
    <3> QED BY <3>1, <3>2
  <2> QED BY <2>1
<1>14. fired' \subseteq SpikeIssue \X (0..MaxSpikeTime)
  BY <1>1, <1>4 DEF DtInv
<1>15. \A e \in fired : e[1] \in SpikeIssue /\ e[2] \in Nat /\ e[2] =< spikeTime /\ DtGated(e)
  BY DtConstants DEF DtInv
\* Who may fire has not done so for an hour.
<1>16. ASSUME NEW e \in fired, e[1] = i, fires PROVE spikeTime - e[2] >= Hour
  <2>1. CASE spikeTime - e[2] >= Hour
    BY <2>1
  <2>2. CASE i \in DOMAIN trackedSpikes /\ e[2] =< trackedSpikes[i].lastFire
    <3>1. i \in left /\ seen.lastFire = trackedSpikes[i].lastFire
      BY <1>3, <1>5, <2>2 DEF old
    <3>2. e[2] \in Nat /\ seen.lastFire \in Int
      BY <1>6, <1>15, DtConstants DEF DtState, NeverFired
    <3>3. seen.lastFire # NeverFired
      BY <2>2, <3>1, <3>2 DEF NeverFired
    <3> QED BY <1>1, <1>7, <1>16, <2>2, <3>1, <3>2, <3>3, DtConstants
  <2> QED BY <1>15, <1>16, <2>1, <2>2 DEF DtGated
<1>17. OncePerHour'
  <2>1. ASSUME NEW e \in fired', NEW f \in fired', e[1] = f[1], e[2] < f[2] PROVE f[2] - e[2] >= Hour
    <3>1. CASE e \in fired /\ f \in fired
      BY <2>1, <3>1 DEF DtInv, OncePerHour
    <3>2. CASE e \in fired /\ fires /\ f = <<i, spikeTime>>
      <4>1. e[1] = i /\ f[2] = spikeTime
        BY <2>1, <3>2
      <4> QED BY <1>16, <3>2, <4>1
    <3>3. CASE fires /\ e = <<i, spikeTime>> /\ f \in fired
      BY <1>1, <1>15, <2>1, <3>3
    <3>4. CASE e = <<i, spikeTime>> /\ f = <<i, spikeTime>>
      BY <1>1, <2>1, <3>4
    <3> QED BY <1>10, <3>1, <3>2, <3>3, <3>4
  <2> QED BY <2>1 DEF OncePerHour, Hour
<1>18. \A e \in fired' : e[2] =< spikeTime' /\ DtGated(e)'
  <2>1. ASSUME NEW e \in fired'
        PROVE  e[2] =< spikeTime /\ (\/ spikeTime - e[2] >= Hour
                                     \/ e[1] \in DOMAIN trackedSpikes' /\ e[2] =< trackedSpikes'[e[1]].lastFire)
    <3>1. CASE fires /\ e = <<i, spikeTime>>
      <4>1. e[1] = i /\ e[2] = spikeTime /\ new.lastFire = spikeTime
        BY <1>8, <3>1
      <4> QED BY <1>1, <1>9, <4>1
    <3>2. CASE e \in fired /\ spikeTime - e[2] >= Hour
      BY <1>15, <3>2
    <3>3. CASE e \in fired /\ e[1] \in DOMAIN trackedSpikes /\ e[2] =< trackedSpikes[e[1]].lastFire
      <4> DEFINE j == e[1]
      <4>0. e[2] \in Nat /\ e[2] =< spikeTime
        BY <1>15, <3>3
      <4>1. DtOK(j, trackedSpikes[j], spikeTime)
        BY <1>1, <3>3
      <4>2. CASE j \notin left
        <5>1. spikeTime - trackedSpikes[j].touched > Hour /\ trackedSpikes[j].lastFire =< trackedSpikes[j].touched
          BY <3>3, <4>1, <4>2 DEF DtOK
        <5>2. trackedSpikes[j].touched \in Nat /\ trackedSpikes[j].lastFire \in Int
          BY <4>1, DtConstants DEF DtOK, DtState, NeverFired
        <5>3. spikeTime - e[2] >= Hour
          BY <1>1, <3>3, <4>0, <5>1, <5>2, DtConstants
        <5> QED BY <4>0, <5>3
      <4>3. CASE j \in left /\ j # i
        BY <1>9, <3>3, <4>0, <4>3
      <4>4. CASE j \in left /\ j = i
        <5>1. seen.lastFire = trackedSpikes[i].lastFire
          BY <1>3, <1>5, <4>4 DEF old
        <5>2. e[2] =< new.lastFire
          BY <1>8, <3>3, <4>0, <4>4, <5>1
        <5> QED BY <1>9, <4>0, <4>4, <5>2
      <4> QED BY <4>2, <4>3, <4>4
    <3> QED BY <1>10, <1>15, <3>1, <3>2, <3>3 DEF DtGated
  <2> QED BY <2>1 DEF DtGated, Hour
<1>19. DOMAIN trackedSpikes' \subseteq SpikeIssue /\ IsFiniteSet(DOMAIN trackedSpikes') /\ Cardinality(DOMAIN trackedSpikes') =< MaxTracked
  BY <1>1, <1>9
<1> QED BY <1>1, <1>13, <1>14, <1>17, <1>18, <1>19 DEF DtInv

LEMMA DtObserves ==
  ASSUME DtInv, NEW i \in SpikeIssue, ObserveSpike(i)
  PROVE  DtInv'
<1> DEFINE D == DOMAIN trackedSpikes
<1>1. UNCHANGED spikeTime /\ IsFiniteSet(D) /\ Cardinality(D) =< MaxTracked /\ Cardinality(D) \in Nat /\ MaxTracked \in Nat
  BY DtConstants, FS_CardinalityType DEF DtInv, ObserveSpike
<1>2. CASE i \in D /\ CountSpike(i, D)
  <2>1. D \cup {i} = D
    BY <1>2
  <2> QED BY <1>1, <1>2, <2>1, DtCounts
<1>3. CASE i \notin D /\ Cardinality(D) < MaxTracked /\ CountSpike(i, D)
  <2>1. IsFiniteSet(D \cup {i}) /\ Cardinality(D \cup {i}) = Cardinality(D) + 1
    BY <1>1, <1>3, FS_AddElement
  <2>2. Cardinality(D \cup {i}) =< MaxTracked
    BY <1>1, <1>3, <2>1
  <2> QED BY <1>1, <1>3, <2>1, <2>2, DtCounts
<1>4. CASE i \notin D /\ Evicted # {} /\ CountSpike(i, D \ Evicted)
  <2> DEFINE left == D \ Evicted
  <2>1. PICK j \in Evicted : j \in D
    BY <1>4 DEF Evicted
  <2>2. left \subseteq D \ {j} /\ IsFiniteSet(D \ {j}) /\ Cardinality(D \ {j}) = Cardinality(D) - 1
    BY <1>1, <2>1, FS_RemoveElement
  <2>3. IsFiniteSet(left) /\ Cardinality(left) =< Cardinality(D) - 1 /\ Cardinality(left) \in Nat
    BY <2>2, FS_Subset, FS_CardinalityType
  <2>4. i \notin left /\ left \in SUBSET D
    BY <1>4
  <2>5. \A k \in D \ left : spikeTime - trackedSpikes[k].touched > Hour
    BY DEF Evicted, IdleSpike
  <2> HIDE DEF left
  <2>6. IsFiniteSet(left \cup {i}) /\ Cardinality(left \cup {i}) = Cardinality(left) + 1
    BY <2>3, <2>4, FS_AddElement
  <2>7. Cardinality(left \cup {i}) =< MaxTracked
    BY <1>1, <2>3, <2>6
  <2> QED BY <1>1, <1>4, <2>4, <2>5, <2>6, <2>7, DtCounts DEF left
<1> QED BY <1>2, <1>3, <1>4 DEF ObserveSpike

LEMMA DtTicks ==
  ASSUME DtInv, SpikeTick
  PROVE  DtInv'
<1>1. spikeTime' = spikeTime + 1 /\ UNCHANGED <<trackedSpikes, fired>> /\ spikeTime' \in 0..MaxSpikeTime
      /\ spikeTime \in Nat
  BY DtConstants DEF SpikeTick, DtInv
<1>2. ASSUME NEW i \in DOMAIN trackedSpikes PROVE DtOK(i, trackedSpikes[i], spikeTime)'
  <2>1. DtOK(i, trackedSpikes[i], spikeTime)
    BY DEF DtInv
  <2>2. trackedSpikes[i].touched \in Nat
    BY <2>1, DtConstants DEF DtOK, DtState
  <2>3. trackedSpikes[i].touched =< spikeTime + 1
    BY <1>1, <2>1, <2>2 DEF DtOK
  <2> QED BY <1>1, <2>1, <2>3 DEF DtOK, DtState
<1>3. ASSUME NEW e \in fired PROVE e[2] =< spikeTime' /\ DtGated(e)'
  <2>1. e[2] \in Nat /\ e[2] =< spikeTime /\ DtGated(e)
    BY DtConstants DEF DtInv
  <2>2. spikeTime - e[2] >= Hour => spikeTime + 1 - e[2] >= Hour
    BY <1>1, <2>1, DtConstants
  <2>3. e[2] =< spikeTime + 1
    BY <1>1, <2>1
  <2> QED BY <1>1, <2>1, <2>2, <2>3 DEF DtGated, Hour
<1>4. OncePerHour'
  BY <1>1 DEF DtInv, OncePerHour, Hour
<1> QED BY <1>1, <1>2, <1>3, <1>4 DEF DtInv

LEMMA DtNothing ==
  ASSUME trackedSpikes = <<>>, fired = {}, spikeTime \in 0..MaxSpikeTime
  PROVE  DtInv
<1>1. DOMAIN trackedSpikes = {}
  OBVIOUS
<1>2. IsFiniteSet({}) /\ Cardinality({}) = 0
  BY FS_EmptySet
<1>3. OncePerHour
  BY DEF OncePerHour
<1> QED BY <1>1, <1>2, <1>3, DtConstants DEF DtInv

(* The spike detector, internal/errors/spike.go: an issue fires at most    *)
(* once in an hour, also after it made room in the map and came back, and  *)
(* what is counted of it is of its last hour, in a map of bounded size.    *)
THEOREM DetectorTheorem == DetectorSpec => [](DetectorTypeOK /\ DetectorSound)
<1>1. DetectorInit => DtInv
  BY DtNothing, DtConstants DEF DetectorInit
<1>2. DtInv /\ [DetectorNext]_detectorVars => DtInv'
  <2> SUFFICES ASSUME DtInv, [DetectorNext]_detectorVars PROVE DtInv'
    OBVIOUS
  <2>1. ASSUME NEW i \in SpikeIssue, ObserveSpike(i) PROVE DtInv'
    BY <2>1, DtObserves
  <2>2. CASE SpikeTick
    BY <2>2, DtTicks
  <2>3. CASE DetectorRestart
    <3>1. trackedSpikes' = <<>> /\ fired' = {} /\ spikeTime' \in 0..MaxSpikeTime
      BY <2>3 DEF DetectorRestart, DtInv
    <3>2. DOMAIN trackedSpikes' = {}
      BY <3>1
    <3>3. IsFiniteSet({}) /\ Cardinality({}) = 0
      BY FS_EmptySet
    <3>4. OncePerHour'
      BY <3>1 DEF OncePerHour
    <3> QED BY <3>1, <3>2, <3>3, <3>4, DtConstants DEF DtInv
  <2>4. CASE UNCHANGED detectorVars
    BY <2>4 DEF DtInv, DtOK, DtState, DtGated, OncePerHour, Hour, detectorVars
  <2> QED BY <2>1, <2>2, <2>3, <2>4 DEF DetectorNext
<1>3. DtInv => DetectorTypeOK /\ DetectorSound
  <2> SUFFICES ASSUME DtInv PROVE DetectorTypeOK /\ DetectorSound
    OBVIOUS
  <2>1. ASSUME NEW i \in DOMAIN trackedSpikes
        PROVE  LET st == trackedSpikes[i]
               IN /\ st.start \in 0..MaxSpikeTime /\ st.current \in 0..MaxBurst
                  /\ Len(st.trail) =< TrailWindows /\ Range(st.trail) \subseteq 0..MaxBurst
                  /\ st.lastFire \in NeverFired..MaxSpikeTime /\ st.touched \in 0..MaxSpikeTime
    <3> DEFINE st == trackedSpikes[i]
    <3>1. st \in DtState /\ Len(st.trail) =< TrailWindows
      BY DEF DtInv, DtOK
    <3> HIDE DEF st
    <3>2. st.trail \in Seq(0..MaxBurst)
      BY <3>1 DEF DtState
    <3>3. Range(st.trail) \subseteq 0..MaxBurst
      <4>1. \A n \in DOMAIN st.trail : st.trail[n] \in 0..MaxBurst
        <5> DEFINE Counts == 0..MaxBurst
        <5> HIDE DEF Counts
        <5>1. st.trail \in Seq(Counts)
          BY <3>2 DEF Counts
        <5>2. \A n \in DOMAIN st.trail : st.trail[n] \in Counts
          BY <5>1, ElementOfSeq
        <5> QED BY <5>2 DEF Counts
      <4> QED BY <4>1 DEF Range
    <3>4. /\ st.start \in 0..MaxSpikeTime /\ st.current \in 0..MaxBurst
          /\ st.lastFire \in NeverFired..MaxSpikeTime /\ st.touched \in 0..MaxSpikeTime
      BY <3>1 DEF DtState
    <3> QED BY <3>1, <3>3, <3>4 DEF st
  <2>2. DetectorTypeOK
    BY <2>1, Zenon DEF DtInv, DetectorTypeOK
  <2>3. TrailOfTheHour
    BY DEF DtInv, DtOK, TrailOfTheHour
  <2> QED BY <2>2, <2>3 DEF DtInv, DetectorSound
<1> QED BY <1>1, <1>2, <1>3, PTL DEF DetectorSpec

-----------------------------------------------------------------------------
(***************************************************************************)
(* Sums over a finite set.                                                 *)
(***************************************************************************)

\* The sums of a column over the sets of rows, as MapThenSumSet takes them.
SumsOf(g, c, S) ==
  LET iter[s \in SUBSET S] ==
        IF s = {} THEN 0 ELSE LET x == CHOOSE y \in s : TRUE IN g[x][c] + iter[s \ {x}]
  IN iter

\* The row that is taken first.
FirstOf(s) == CHOOSE y \in s : TRUE

IsSums(g, c, D, sums) ==
  sums = [s \in D |-> IF s = {} THEN 0 ELSE g[FirstOf(s)][c] + sums[s \ {FirstOf(s)}]]

LEMMA LeastSet ==
  ASSUME NEW S, IsFiniteSet(S), NEW B \in SUBSET (SUBSET S), B # {}
  PROVE  \E s \in B : \A t \in B : t \subseteq s => t = s
<1>1. B \subseteq FiniteSubsetsOf(S)
  <2>1. \A s \in B : s \subseteq S /\ IsFiniteSet(s)
    BY FS_Subset
  <2> QED BY <2>1 DEF FiniteSubsetsOf
<1>2. PICK s \in B : \A t \in B : ~(<<t, s>> \in StrictSubsetOrdering(S))
  BY <1>1, FS_StrictSubsetOrderingWellFounded, WFMin
<1> QED BY <1>2 DEF StrictSubsetOrdering

LEMMA SumsExist ==
  ASSUME NEW S, IsFiniteSet(S), NEW g, NEW c, NEW n \in Nat
  PROVE  \E sums : IsSums(g, c, {s \in SUBSET S : Cardinality(s) =< n}, sums)
<1> DEFINE D(m) == {s \in SUBSET S : Cardinality(s) =< m}
           Has(m) == \E sums : IsSums(g, c, D(m), sums)
           short == {m \in Nat : ~Has(m)}
<1> SUFFICES ASSUME short # {} PROVE FALSE
  OBVIOUS
<1>0. \A s \in SUBSET S : IsFiniteSet(s) /\ Cardinality(s) \in Nat /\ (Cardinality(s) = 0 <=> s = {})
  BY FS_Subset, FS_CardinalityType, FS_EmptySet
<1>1. PICK m \in short : \A other \in short : ~(<<other, m>> \in OpToRel(<, Nat))
  BY WFMin, NatLessThanWellFounded
<1>2. ASSUME NEW s \in SUBSET S, s # {}
      PROVE  FirstOf(s) \in s /\ s \ {FirstOf(s)} \in SUBSET S /\ Cardinality(s \ {FirstOf(s)}) = Cardinality(s) - 1
  <2>1. FirstOf(s) \in s
    BY <1>2 DEF FirstOf
  <2>2. IsFiniteSet(s)
    BY <1>0
  <2>3. Cardinality(s \ {FirstOf(s)}) = Cardinality(s) - 1
    BY <2>1, <2>2, FS_RemoveElement
  <2> QED BY <2>1, <2>3
<1>3. m # 0
  <2>1. Has(0)
    <3> DEFINE sums == [s \in D(0) |-> 0]
    <3>1. \A s \in D(0) : s = {}
      BY <1>0
    <3>2. sums = [s \in D(0) |-> IF s = {} THEN 0 ELSE g[FirstOf(s)][c] + sums[s \ {FirstOf(s)}]]
      BY <3>1
    <3> HIDE DEF sums, D
    <3>3. IsSums(g, c, D(0), sums)
      BY <3>2 DEF IsSums
    <3> QED BY <3>3
  <2> HIDE DEF Has
  <2> QED BY <1>1, <2>1
<1>4. m \in Nat /\ m - 1 \in Nat /\ m - 1 < m
  <2>1. m \in Nat
    BY <1>1
  <2> QED BY <1>3, <2>1
<1>5. Has(m - 1)
  <2>1. ~(m - 1 \in short)
    BY <1>1, <1>4 DEF OpToRel
  <2> HIDE DEF Has
  <2> QED BY <1>4, <2>1
<1>6. PICK sums : IsSums(g, c, D(m - 1), sums)
  BY <1>5
<1> DEFINE more == [s \in D(m) |-> IF Cardinality(s) < m THEN sums[s]
                                   ELSE g[FirstOf(s)][c] + sums[s \ {FirstOf(s)}]]
<1>7. ASSUME NEW s \in D(m)
      PROVE  more[s] = IF s = {} THEN 0 ELSE g[FirstOf(s)][c] + more[s \ {FirstOf(s)}]
  <2>0. s \in SUBSET S /\ Cardinality(s) =< m /\ Cardinality(s) \in Nat /\ (Cardinality(s) = 0 <=> s = {})
    BY <1>0
  <2>1. CASE s = {}
    <3>1. s \in D(m - 1) /\ Cardinality(s) < m
      BY <1>3, <1>4, <2>0, <2>1
    <3>2. sums[s] = 0
      BY <1>6, <2>1, <3>1 DEF IsSums
    <3> QED BY <2>1, <3>1, <3>2
  <2>2. CASE s # {}
    <3> DEFINE t == s \ {FirstOf(s)}
    <3>1. t \in SUBSET S /\ Cardinality(t) = Cardinality(s) - 1
      BY <1>2, <2>0, <2>2
    <3> HIDE DEF t
    <3>2. t \in D(m) /\ Cardinality(t) < m
      BY <1>4, <2>0, <3>1
    <3>3. more[t] = sums[t]
      BY <3>2
    <3>4. CASE Cardinality(s) < m
      <4>1. s \in D(m - 1)
        BY <1>4, <2>0, <3>4
      <4>2. sums[s] = g[FirstOf(s)][c] + sums[t]
        BY <1>6, <2>2, <4>1 DEF IsSums, t
      <4> QED BY <2>2, <3>3, <3>4, <4>2 DEF t
    <3>5. CASE ~(Cardinality(s) < m)
      BY <2>2, <3>3, <3>5 DEF t
    <3> QED BY <3>4, <3>5
  <2> QED BY <2>1, <2>2
<1>8. more = [s \in D(m) |-> IF s = {} THEN 0 ELSE g[FirstOf(s)][c] + more[s \ {FirstOf(s)}]]
  <2>1. more = [s \in D(m) |-> more[s]]
    OBVIOUS
  <2> HIDE DEF more, D
  <2> QED BY <1>7, <2>1
<1> HIDE DEF more, D
<1>9. Has(m)
  BY <1>8 DEF IsSums
<1> HIDE DEF Has
<1> QED BY <1>1, <1>9

\* What the sums are, row by row.
GoesBy(sums, g, c, S) ==
  /\ sums[{}] = 0
  /\ \A s \in SUBSET S : s # {} => FirstOf(s) \in s /\ sums[s] = g[FirstOf(s)][c] + sums[s \ {FirstOf(s)}]

LEMMA SumsGo ==
  ASSUME NEW S, IsFiniteSet(S), NEW g, NEW c
  PROVE  GoesBy(SumsOf(g, c, S), g, c, S)
<1> DEFINE iter[s \in SUBSET S] ==
             IF s = {} THEN 0 ELSE LET x == CHOOSE y \in s : TRUE IN g[x][c] + iter[s \ {x}]
<1>1. {s \in SUBSET S : Cardinality(s) =< Cardinality(S)} = SUBSET S
  BY FS_Subset
<1>2. Cardinality(S) \in Nat
  BY FS_CardinalityType
<1>3. iter = [s \in SUBSET S |->
                IF s = {} THEN 0 ELSE LET x == CHOOSE y \in s : TRUE IN g[x][c] + iter[s \ {x}]]
  <2>1. \E sums : sums = [s \in SUBSET S |->
                IF s = {} THEN 0 ELSE LET x == CHOOSE y \in s : TRUE IN g[x][c] + sums[s \ {x}]]
    <3> HIDE DEF iter
    <3>1. \E sums : IsSums(g, c, {s \in SUBSET S : Cardinality(s) =< Cardinality(S)}, sums)
      BY <1>2, SumsExist
    <3>2. PICK sums : IsSums(g, c, SUBSET S, sums)
      BY <1>1, <3>1
    <3> QED BY <3>2, Zenon DEF IsSums, FirstOf
  <2> QED BY <2>1
<1>4. SumsOf(g, c, S) = iter
  BY DEF SumsOf
<1> HIDE DEF iter
<1>5. iter[{}] = 0
  BY <1>3
<1>6. ASSUME NEW s \in SUBSET S, s # {}
      PROVE  FirstOf(s) \in s /\ iter[s] = g[FirstOf(s)][c] + iter[s \ {FirstOf(s)}]
  BY <1>3, <1>6 DEF FirstOf
<1> QED BY <1>4, <1>5, <1>6 DEF GoesBy

(* What holds of no rows, and of some when it holds of them without the    *)
(* first, holds of all.                                                    *)
LEMMA RowByRow ==
  ASSUME NEW S, IsFiniteSet(S), NEW good \in SUBSET (SUBSET S), {} \in good,
         \A s \in SUBSET S : s # {} /\ s \ {FirstOf(s)} \in good => s \in good
  PROVE  good = SUBSET S
<1> DEFINE bad == (SUBSET S) \ good
<1> SUFFICES ASSUME bad # {} PROVE FALSE
  OBVIOUS
<1>1. bad \in SUBSET (SUBSET S)
  OBVIOUS
<1>2. \A s \in bad : s \in SUBSET S /\ s \notin good
  OBVIOUS
<1>3. \A s \in SUBSET S : s \in good \/ s \in bad
  OBVIOUS
<1> HIDE DEF bad
<1>4. PICK s \in bad : \A t \in bad : t \subseteq s => t = s
  BY <1>1, LeastSet
<1>5. s # {} /\ s \in SUBSET S /\ s \notin good
  BY <1>2, <1>4
<1> DEFINE t == s \ {FirstOf(s)}
<1>6. FirstOf(s) \in s
  BY <1>5 DEF FirstOf
<1>7. t \subseteq s /\ t # s /\ t \in SUBSET S
  BY <1>5, <1>6
<1>8. t \in good
  BY <1>3, <1>4, <1>7
<1> QED BY <1>5, <1>8

LEMMA SumsAreNat ==
  ASSUME NEW S, IsFiniteSet(S), NEW g, NEW c, \A x \in S : g[x][c] \in Nat
  PROVE  \A s \in SUBSET S : SumsOf(g, c, S)[s] \in Nat
<1> DEFINE sums == SumsOf(g, c, S)
           good == {s \in SUBSET S : sums[s] \in Nat}
<1>1. GoesBy(sums, g, c, S)
  BY SumsGo
<1> HIDE DEF sums
<1>2. good \in SUBSET (SUBSET S) /\ {} \in good
  BY <1>1 DEF GoesBy
<1>3. ASSUME NEW s \in SUBSET S, s # {}, s \ {FirstOf(s)} \in good
      PROVE  s \in good
  <2>1. FirstOf(s) \in s /\ sums[s] = g[FirstOf(s)][c] + sums[s \ {FirstOf(s)}]
    BY <1>1, <1>3 DEF GoesBy
  <2>2. g[FirstOf(s)][c] \in Nat /\ sums[s \ {FirstOf(s)}] \in Nat
    BY <1>3, <2>1
  <2> QED BY <2>1, <2>2
<1>4. good = SUBSET S
  <2> HIDE DEF good
  <2> QED BY <1>2, <1>3, RowByRow, Zenon
<1> QED BY <1>4 DEF sums

(* What one row gains the sum gains.                                       *)
LEMMA SumsMove ==
  ASSUME NEW S, IsFiniteSet(S), NEW g, NEW h, NEW c, NEW f \in S, NEW d \in Nat,
         \A x \in S : g[x][c] \in Nat /\ h[x][c] = g[x][c] + (IF x = f THEN d ELSE 0)
  PROVE  SumsOf(h, c, S)[S] = SumsOf(g, c, S)[S] + d /\ SumsOf(g, c, S)[S] \in Nat
<1> DEFINE sums == SumsOf(g, c, S)
           new == SumsOf(h, c, S)
           good == {s \in SUBSET S : new[s] = sums[s] + (IF f \in s THEN d ELSE 0)}
<1>0. \A s \in SUBSET S : sums[s] \in Nat
  BY SumsAreNat
<1>1. GoesBy(sums, g, c, S)
  BY SumsGo
<1>2. GoesBy(new, h, c, S)
  BY SumsGo
<1> HIDE DEF sums, new
<1>3. good \in SUBSET (SUBSET S) /\ {} \in good
  BY <1>1, <1>2 DEF GoesBy
<1>4. ASSUME NEW s \in SUBSET S, s # {}, s \ {FirstOf(s)} \in good
      PROVE  s \in good
  <2> DEFINE x == FirstOf(s)
             t == s \ {x}
  <2>1. x \in s /\ x \in S /\ sums[s] = g[x][c] + sums[t] /\ new[s] = h[x][c] + new[t]
    BY <1>1, <1>2, <1>4 DEF GoesBy
  <2>2. t \in SUBSET S /\ (f \in t <=> f \in s /\ f # x)
    BY <2>1
  <2>3. new[t] = sums[t] + (IF f \in t THEN d ELSE 0)
    BY <1>4
  <2> HIDE DEF x, t
  <2>4. h[x][c] = g[x][c] + (IF x = f THEN d ELSE 0) /\ g[x][c] \in Nat /\ sums[t] \in Nat
    BY <1>0, <2>1, <2>2
  <2>5. new[s] = sums[s] + (IF f \in s THEN d ELSE 0)
    BY <2>1, <2>2, <2>3, <2>4
  <2> QED BY <2>5
<1>5. good = SUBSET S
  <2> HIDE DEF good
  <2> QED BY <1>3, <1>4, RowByRow, Zenon
<1>6. new[S] = sums[S] + d
  BY <1>5
<1> QED BY <1>0, <1>6 DEF sums, new

(* A column that nowhere has more has no greater sum.                      *)
LEMMA SumsCompare ==
  ASSUME NEW S, IsFiniteSet(S), NEW g, NEW c, NEW b,
         \A x \in S : g[x][c] \in Nat /\ g[x][b] \in Nat /\ g[x][c] =< g[x][b]
  PROVE  SumsOf(g, c, S)[S] =< SumsOf(g, b, S)[S]
<1> DEFINE less == SumsOf(g, c, S)
           sums == SumsOf(g, b, S)
           good == {s \in SUBSET S : less[s] =< sums[s]}
<1>0. \A s \in SUBSET S : less[s] \in Nat
  BY SumsAreNat
<1>01. \A s \in SUBSET S : sums[s] \in Nat
  BY SumsAreNat
<1>1. GoesBy(less, g, c, S)
  BY SumsGo
<1>2. GoesBy(sums, g, b, S)
  BY SumsGo
<1> HIDE DEF sums, less
<1>3. good \in SUBSET (SUBSET S) /\ {} \in good
  BY <1>1, <1>2 DEF GoesBy
<1>4. ASSUME NEW s \in SUBSET S, s # {}, s \ {FirstOf(s)} \in good
      PROVE  s \in good
  <2> DEFINE x == FirstOf(s)
             t == s \ {x}
  <2>1. x \in s /\ x \in S /\ less[s] = g[x][c] + less[t] /\ sums[s] = g[x][b] + sums[t]
    BY <1>1, <1>2, <1>4 DEF GoesBy
  <2>2. t \in SUBSET S
    BY <2>1
  <2>3. less[t] =< sums[t]
    BY <1>4
  <2> HIDE DEF x, t
  <2>4. less[t] \in Nat /\ sums[t] \in Nat /\ g[x][c] \in Nat /\ g[x][b] \in Nat /\ g[x][c] =< g[x][b]
    BY <1>0, <1>01, <2>1, <2>2
  <2>5. less[s] =< sums[s]
    BY <2>1, <2>3, <2>4
  <2> QED BY <2>5
<1>5. good = SUBSET S
  <2> HIDE DEF good
  <2> QED BY <1>3, <1>4, RowByRow, Zenon
<1>6. less[S] =< sums[S]
  BY <1>5
<1> QED BY <1>6 DEF sums, less

LEMMA SumsOfNothing ==
  ASSUME NEW S, IsFiniteSet(S), NEW g, NEW c, \A x \in S : g[x][c] = 0
  PROVE  SumsOf(g, c, S)[S] = 0
<1> DEFINE sums == SumsOf(g, c, S)
           good == {s \in SUBSET S : sums[s] = 0}
<1>1. GoesBy(sums, g, c, S)
  BY SumsGo
<1> HIDE DEF sums
<1>2. good \in SUBSET (SUBSET S) /\ {} \in good
  BY <1>1 DEF GoesBy
<1>3. ASSUME NEW s \in SUBSET S, s # {}, s \ {FirstOf(s)} \in good
      PROVE  s \in good
  <2>1. FirstOf(s) \in s /\ sums[s] = g[FirstOf(s)][c] + sums[s \ {FirstOf(s)}]
    BY <1>1, <1>3 DEF GoesBy
  <2>2. g[FirstOf(s)][c] = 0 /\ sums[s \ {FirstOf(s)}] = 0
    BY <1>3, <2>1
  <2> QED BY <2>1, <2>2
<1>4. good = SUBSET S
  <2> HIDE DEF good
  <2> QED BY <1>2, <1>3, RowByRow, Zenon
<1> QED BY <1>4 DEF sums

LEMMA CreatedIs ==
  MapThenSumSet(LAMBDA f : spikeTally[f].created, Fingerprint) = SumsOf(spikeTally, "created", Fingerprint)[Fingerprint]
BY DEF MapThenSumSet, MapThenFoldSet, SumsOf

-----------------------------------------------------------------------------
(***************************************************************************)
(* Spike protection.                                                       *)
(***************************************************************************)

\* What a row of the window counts.
Tallies == {"kept", "thinned", "exempt", "refused", "created"}

Keys == Cardinality(Tracked)

GdTyped ==
  /\ siteN \in 0..MaxWindowEvents /\ issueN \in [Fingerprint -> 0..siteN]
  /\ exemptN \in 0..siteN /\ denied \subseteq Fingerprint
  /\ issueOf \in [Fingerprint -> {"none", "open", "resolved"}]
  /\ cachedIssue \subseteq Fingerprint /\ \A f \in cachedIssue : issueOf[f] # "none"
  /\ spikeTally \in [Fingerprint -> [Tallies -> 0..siteN]]

\* The issue a fingerprint makes is charged before it is made.
GdCharged(f) ==
  /\ spikeTally[f]["created"] =< spikeTally[f]["exempt"]
  /\ spikeTally[f]["created"] > 0 => issueOf[f] # "none"
  /\ issueN[f] > 0 /\ f \notin denied /\ issueOf[f] = "none" => spikeTally[f]["exempt"] >= 1
  /\ spikeTally[f]["refused"] > 0 \/ f \in denied => exemptN > NewIssueCap

GdNew ==
  NewIssueCap > 0 =>
    /\ SumsOf(spikeTally, "exempt", Fingerprint)[Fingerprint] =< exemptN
    /\ SumsOf(spikeTally, "exempt", Fingerprint)[Fingerprint] =< NewIssueCap
    /\ denied \subseteq Tracked \/ Keys >= MaxTrackedFingerprints
    /\ \A f \in Fingerprint : GdCharged(f)

\* What was thinned for the site was past its share, and shares only fall.
GdSteady(f) ==
  spikeTally[f]["thinned"] > 0 =>
    \/ siteN > 2 * SiteCap \/ issueN[f] > FairShare(Keys)
    \/ issueN[f] = 0 /\ Keys >= MaxTrackedFingerprints

\* How many of n events the cap of an issue keeps.
Quota(n) == IF n =< IssueCap THEN n ELSE IssueCap + (n - IssueCap) \div SampleN

GdFlood(f) ==
  /\ issueN[f] = 0 /\ Keys < MaxTrackedFingerprints => spikeTally[f]["kept"] = 0 /\ spikeTally[f]["thinned"] = 0
  /\ issueN[f] > 0 /\ IssueCap > 0 => spikeTally[f]["kept"] =< Quota(issueN[f]) + spikeTally[f]["exempt"]

GdInv == GdTyped /\ GdNew /\ \A f \in Fingerprint : GdSteady(f) /\ GdFlood(f)

LEMMA GdConstants ==
  /\ IssueCap \in Nat /\ SiteCap \in Nat /\ NewIssueCap \in Nat /\ MaxTrackedFingerprints \in Nat
  /\ MaxWindowEvents \in Nat /\ SampleN \in Nat \ {0} /\ IsFiniteSet(Fingerprint)
BY SpikeAssumption

LEMMA TalliesAre == DOMAIN NoTally = Tallies /\ \A x \in Tallies : NoTally[x] = 0
BY DEF NoTally, Tallies

(* The share of an issue is a number, and falls as more are seen.          *)
LEMMA SharesFall ==
  ASSUME NEW a \in Nat, NEW b \in Nat, a =< b
  PROVE  FairShare(a) \in Nat /\ FairShare(b) \in Nat /\ FairShare(b) =< FairShare(a)
<1> DEFINE p == Max({a, 1})
           q == Max({b, 1})
<1>1. p \in Nat /\ p >= 1 /\ p \in {a, 1} /\ p >= a
  <2>1. a \in Int /\ 1 \in Int
    OBVIOUS
  <2>2. Max({a, 1}) \in Int /\ Max({a, 1}) >= a /\ Max({a, 1}) >= 1 /\ Max({a, 1}) \in {a, 1}
    BY <2>1, MaxOfTwo
  <2> HIDE DEF p
  <2>3. p \in Int /\ p >= a /\ p >= 1 /\ p \in {a, 1}
    BY <2>2 DEF p
  <2> QED BY <2>3
<1>2. q \in Nat /\ q >= 1 /\ q \in {b, 1} /\ q >= b
  <2>1. b \in Int /\ 1 \in Int
    OBVIOUS
  <2>2. Max({b, 1}) \in Int /\ Max({b, 1}) >= b /\ Max({b, 1}) >= 1 /\ Max({b, 1}) \in {b, 1}
    BY <2>1, MaxOfTwo
  <2> HIDE DEF q
  <2>3. q \in Int /\ q >= b /\ q >= 1 /\ q \in {b, 1}
    BY <2>2 DEF q
  <2> QED BY <2>3
<1> HIDE DEF p, q
<1>3. p =< q
  BY <1>1, <1>2
<1> DEFINE u == SiteCap \div p
           v == SiteCap \div q
<1>4. SiteCap \in Nat
  BY GdConstants
<1>5. u \in Nat /\ v \in Nat /\ SiteCap < (u + 1) * p /\ v * q =< SiteCap
  BY <1>1, <1>2, <1>4
<1> HIDE DEF u, v
<1>6. v =< u
  <2> SUFFICES ASSUME v >= u + 1 PROVE FALSE
    BY <1>5
  <2>1. (u + 1) * p =< v * p
    BY <1>1, <1>5
  <2>2. v * p =< v * q
    BY <1>1, <1>2, <1>3, <1>5
  <2>3. (u + 1) * p \in Nat /\ v * p \in Nat /\ v * q \in Nat
    BY <1>1, <1>2, <1>5
  <2> QED BY <1>4, <1>5, <2>1, <2>2, <2>3
<1>7. FairShare(a) = Max({u, 1})
  BY DEF FairShare, u, p
<1>8. FairShare(b) = Max({v, 1})
  BY DEF FairShare, v, q
<1>9. Max({u, 1}) \in Int /\ Max({u, 1}) >= u /\ Max({u, 1}) >= 1
  <2>1. u \in Int /\ 1 \in Int
    BY <1>5
  <2> QED BY <2>1, MaxOfTwo
<1>10. Max({v, 1}) \in Int /\ Max({v, 1}) >= 1 /\ Max({v, 1}) \in {v, 1}
  <2>1. v \in Int /\ 1 \in Int
    BY <1>5
  <2> QED BY <2>1, MaxOfTwo
<1> QED BY <1>5, <1>6, <1>7, <1>8, <1>9, <1>10

(* Past the cap the quota grows by the events that are a multiple of       *)
(* SampleN.                                                                *)
LEMMA QuotaGrows ==
  ASSUME NEW n \in Nat
  PROVE  /\ Quota(n) \in Nat /\ Quota(n) =< Quota(n + 1)
         /\ n + 1 =< IssueCap \/ ~Thinned(n + 1, IssueCap) => Quota(n + 1) = Quota(n) + 1
<1>1. IssueCap \in Nat /\ SampleN \in Nat \ {0}
  BY GdConstants
<1>2. CASE n + 1 =< IssueCap
  BY <1>1, <1>2 DEF Quota
<1>3. CASE n = IssueCap
  <2> DEFINE one == 1 \div SampleN
  <2>1. (n + 1) - IssueCap = 1
    BY <1>1, <1>3
  <2>2. one \in Nat /\ (1 % SampleN = 0 => one = 1)
    BY <1>1
  <2>3. Quota(n) = n /\ Quota(n + 1) = IssueCap + one
    BY <1>1, <1>3, <2>1 DEF Quota
  <2>4. Thinned(n + 1, IssueCap) <=> 1 % SampleN # 0
    BY <2>1 DEF Thinned
  <2>5. ~(n + 1 =< IssueCap)
    BY <1>1, <1>3
  <2> HIDE DEF one
  <2> QED BY <1>1, <1>3, <2>2, <2>3, <2>4, <2>5
<1>4. CASE n > IssueCap
  <2> DEFINE d == n - IssueCap
  <2>1. d \in Nat /\ (n + 1) - IssueCap = d + 1
    BY <1>1, <1>4
  <2> HIDE DEF d
  <2>2. /\ d \div SampleN \in Nat /\ (d + 1) \div SampleN \in Nat
        /\ d \div SampleN =< (d + 1) \div SampleN
        /\ (d + 1) % SampleN = 0 => (d + 1) \div SampleN = (d \div SampleN) + 1
    BY <1>1, <2>1
  <2>3. Quota(n) = IssueCap + d \div SampleN /\ Quota(n + 1) = IssueCap + (d + 1) \div SampleN
    BY <1>1, <1>4, <2>1 DEF Quota, d
  <2>4. Thinned(n + 1, IssueCap) <=> (d + 1) % SampleN # 0
    BY <2>1 DEF Thinned
  <2>5. ~(n + 1 =< IssueCap)
    BY <1>1, <1>4
  <2> QED BY <1>1, <2>2, <2>3, <2>4, <2>5
<1> QED BY <1>1, <1>2, <1>3, <1>4

(* What count does to the counters of the window.                          *)
LEMMA CountsAre ==
  ASSUME GdTyped, NEW f \in Fingerprint
  PROVE  /\ CountedIssues(f) \in [Fingerprint -> 0..(siteN + 1)]
         /\ \A other \in Fingerprint : other # f => CountedIssues(f)[other] = issueN[other]
         /\ CountedIssues(f)[f] = issueN[f] + (IF issueN[f] > 0 \/ Keys < MaxTrackedFingerprints THEN 1 ELSE 0)
<1>1. issueN \in [Fingerprint -> 0..siteN] /\ siteN \in Nat
  BY GdConstants DEF GdTyped
<1>2. f \in Tracked <=> issueN[f] > 0
  BY DEF Tracked
<1>3. CASE issueN[f] > 0 \/ Keys < MaxTrackedFingerprints
  <2> DEFINE n == issueN[f] + 1
  <2>1. CountedIssues(f) = [issueN EXCEPT ![f] = n]
    BY <1>2, <1>3 DEF CountedIssues, Keys
  <2>2. n \in 0..(siteN + 1)
    BY <1>1
  <2>3. issueN \in [Fingerprint -> 0..(siteN + 1)]
    BY <1>1
  <2> HIDE DEF n
  <2>4. /\ CountedIssues(f) \in [Fingerprint -> 0..(siteN + 1)] /\ CountedIssues(f)[f] = n
        /\ \A other \in Fingerprint : other # f => CountedIssues(f)[other] = issueN[other]
    BY <2>1, <2>2, <2>3
  <2> QED BY <1>3, <2>4 DEF n
<1>4. CASE ~(issueN[f] > 0 \/ Keys < MaxTrackedFingerprints)
  <2>1. CountedIssues(f) = issueN
    BY <1>2, <1>4 DEF CountedIssues, Keys
  <2> QED BY <1>1, <1>4, <2>1
<1> QED BY <1>3, <1>4

(* And what that makes of the number of keys.                              *)
LEMMA KeysAre ==
  ASSUME GdTyped, NEW f \in Fingerprint, issueN' = CountedIssues(f)
  PROVE  /\ Keys \in Nat /\ Keys' \in Nat /\ Keys =< Keys' /\ Tracked \subseteq Tracked'
         /\ Keys' = Cardinality({other \in Fingerprint : CountedIssues(f)[other] > 0})
         /\ f \notin Tracked' => Keys >= MaxTrackedFingerprints
         /\ issueN[f] > 0 \/ Keys >= MaxTrackedFingerprints => Tracked' = Tracked /\ Keys' = Keys
<1>1. issueN \in [Fingerprint -> 0..siteN] /\ siteN \in Nat /\ MaxTrackedFingerprints \in Nat
  BY GdConstants DEF GdTyped
<1>2. IsFiniteSet(Fingerprint)
  BY GdConstants
<1>3. Tracked' = {other \in Fingerprint : CountedIssues(f)[other] > 0}
  BY DEF Tracked
<1>4. Tracked \subseteq Tracked' /\ Tracked' \subseteq Fingerprint /\ Tracked \subseteq Fingerprint
  BY <1>1, <1>3, CountsAre DEF Tracked
<1>5. IsFiniteSet(Tracked) /\ IsFiniteSet(Tracked')
  BY <1>2, <1>4, FS_Subset
<1>6. Cardinality(Tracked) \in Nat /\ Cardinality(Tracked') \in Nat
  BY <1>5, FS_CardinalityType
<1>7. Cardinality(Tracked) =< Cardinality(Tracked')
  BY <1>4, <1>5, FS_Subset
<1>8. f \notin Tracked' => Keys >= MaxTrackedFingerprints
  <2> SUFFICES ASSUME ~(Keys >= MaxTrackedFingerprints) PROVE f \in Tracked'
    OBVIOUS
  <2>1. Keys < MaxTrackedFingerprints
    BY <1>1, <1>6 DEF Keys
  <2>2. CountedIssues(f)[f] = issueN[f] + 1
    BY <2>1, CountsAre
  <2> QED BY <1>1, <1>3, <2>2
<1>9. ASSUME issueN[f] > 0 \/ Keys >= MaxTrackedFingerprints
      PROVE  Tracked' = Tracked
  <2>1. CountedIssues(f)[f] > 0 <=> issueN[f] > 0
    <3>1. CASE issueN[f] > 0
      BY <1>1, <3>1, CountsAre
    <3>2. CASE ~(issueN[f] > 0) /\ Keys >= MaxTrackedFingerprints
      <4>1. ~(Keys < MaxTrackedFingerprints)
        BY <1>1, <1>6, <3>2 DEF Keys
      <4>2. CountedIssues(f)[f] = issueN[f] + 0
        BY <3>2, <4>1, CountsAre
      <4> QED BY <1>1, <3>2, <4>2
    <3> QED BY <1>9, <3>1, <3>2
  <2> QED BY <1>3, <2>1, CountsAre DEF Tracked
<1> QED BY <1>3, <1>4, <1>6, <1>7, <1>8, <1>9 DEF Keys

\* The row of f gains one in each column of ch.
Gains(f, ch) ==
  /\ spikeTally' \in [Fingerprint -> [Tallies -> 0..(siteN + 1)]]
  /\ \A other \in Fingerprint : other # f => spikeTally'[other] = spikeTally[other]
  /\ \A x \in Tallies : spikeTally'[f][x] = spikeTally[f][x] + (IF x \in ch THEN 1 ELSE 0)

LEMMA NotesGain ==
  ASSUME GdTyped, NEW f \in Fingerprint, NEW ch, Note(f, ch)
  PROVE  Gains(f, ch)
<1> DEFINE row == [x \in DOMAIN NoTally |-> spikeTally[f][x] + (IF x \in ch THEN 1 ELSE 0)]
<1>1. spikeTally \in [Fingerprint -> [Tallies -> 0..siteN]] /\ siteN \in Nat
  BY GdConstants DEF GdTyped
<1>2. spikeTally' = [spikeTally EXCEPT ![f] = row]
  BY DEF Note
<1>3. row \in [Tallies -> 0..(siteN + 1)] /\ \A x \in Tallies : row[x] = spikeTally[f][x] + (IF x \in ch THEN 1 ELSE 0)
  BY <1>1, TalliesAre
<1> HIDE DEF row
<1>4. spikeTally \in [Fingerprint -> [Tallies -> 0..(siteN + 1)]]
  BY <1>1
<1>5. spikeTally'[f] = row /\ \A other \in Fingerprint : other # f => spikeTally'[other] = spikeTally[other]
  BY <1>1, <1>2
<1>6. spikeTally' \in [Fingerprint -> [Tallies -> 0..(siteN + 1)]]
  BY <1>2, <1>3, <1>4
<1> QED BY <1>3, <1>5, <1>6 DEF Gains

\* The issue of f after an event that was let through, or was not.
Applied(f) == issueOf' = [issueOf EXCEPT ![f] = "open"] /\ cachedIssue' = cachedIssue \cup {f}
SameIssues == issueOf' = issueOf /\ cachedIssue' = cachedIssue

\* How the cap on new issues is charged for an event of f.
Charges(f, ch) ==
  \/ /\ exemptN' = exemptN /\ denied' = denied /\ "exempt" \notin ch /\ "refused" \notin ch
     /\ f \notin denied /\ (f \in Tracked \/ ~SpikeExempt(f))
  \/ /\ exemptN' = exemptN /\ denied' = denied /\ "exempt" \notin ch /\ f \in denied /\ "created" \notin ch
  \/ /\ NewIssueCap = 0 /\ exemptN' = exemptN /\ denied' = denied
  \/ /\ NewIssueCap > 0 /\ exemptN' = exemptN + 1 /\ f \notin denied
     /\ \/ exemptN < NewIssueCap /\ denied' = denied /\ "exempt" \in ch /\ "refused" \notin ch
        \/ exemptN >= NewIssueCap /\ denied' = Denied(f) /\ "exempt" \notin ch /\ "created" \notin ch

\* What became of an event: its row, its issue, and that it was dropped or
\* kept as the caps say.
Outcome(f, ch) ==
  /\ Gains(f, ch) /\ siteN < MaxWindowEvents /\ siteN' = siteN + 1 /\ issueN' = CountedIssues(f)
  /\ \/ Applied(f) /\ ("created" \in ch <=> issueOf[f] = "none")
     \/ SameIssues /\ "created" \notin ch
  /\ \/ "kept" \notin ch \/ "exempt" \in ch
     \/ ~(OverIssue(f, CountedIssues(f)) /\ Thinned(CountedIssues(f)[f], IssueCap))
  /\ "thinned" \in ch => OverSite(f, CountedIssues(f))
  /\ Charges(f, ch)

LEMMA Applies ==
  ASSUME GdTyped, NEW f \in Fingerprint, NEW ch \in SUBSET {"exempt"}, Apply(f, ch)
  PROVE  \E all \in SUBSET Tallies :
           /\ Gains(f, all)
           /\ \/ Applied(f) /\ ("created" \in all <=> issueOf[f] = "none")
              \/ SameIssues /\ "created" \notin all
           /\ "thinned" \notin all /\ "refused" \notin all /\ ("exempt" \in all <=> "exempt" \in ch)
<1>1. CASE Note(f, ch) /\ UNCHANGED <<issueOf, cachedIssue>>
  <2>1. Gains(f, ch)
    BY <1>1, NotesGain
  <2> QED BY <1>1, <2>1 DEF SameIssues, Tallies
<1>2. CASE /\ Applied(f)
           /\ Note(f, ch \cup {"kept"} \cup IF issueOf[f] = "none" THEN {"created"} ELSE {})
  <2> DEFINE all == ch \cup {"kept"} \cup IF issueOf[f] = "none" THEN {"created"} ELSE {}
  <2>1. all \in SUBSET Tallies /\ "thinned" \notin all /\ "refused" \notin all /\ ("exempt" \in all <=> "exempt" \in ch)
        /\ ("created" \in all <=> issueOf[f] = "none")
    BY DEF Tallies
  <2>2. Gains(f, all)
    BY <1>2, NotesGain
  <2> HIDE DEF all
  <2> QED BY <1>2, <2>1, <2>2
<1> QED BY <1>1, <1>2 DEF Apply, Applied

LEMMA ChecksComeOut ==
  ASSUME GdTyped, NEW f \in Fingerprint, SpikeCheck(f)
  PROVE  \E ch \in SUBSET Tallies : Outcome(f, ch)
<1> DEFINE counts == CountedIssues(f)
           byIssue == OverIssue(f, counts) /\ Thinned(counts[f], IssueCap)
           bySite == OverSite(f, counts) /\ Thinned(siteN + 1, SiteCap)
<1>1. siteN < MaxWindowEvents /\ siteN' = siteN + 1 /\ issueN' = counts
  BY DEF SpikeCheck
<1>2. \/ f \in denied /\ Drop(f, {"refused"}) /\ UNCHANGED <<exemptN, denied>>
      \/ /\ f \notin denied /\ Asked(f, byIssue \/ bySite) /\ SpikeExempt(f)
         /\ \/ NewIssueCap = 0 /\ Apply(f, {"exempt"}) /\ UNCHANGED <<exemptN, denied>>
            \/ /\ NewIssueCap > 0 /\ exemptN' = exemptN + 1
               /\ \/ exemptN < NewIssueCap /\ Apply(f, {"exempt"}) /\ UNCHANGED denied
                  \/ exemptN >= NewIssueCap /\ denied' = Denied(f) /\ Drop(f, {"refused"})
      \/ /\ f \notin denied /\ ~(Asked(f, byIssue \/ bySite) /\ SpikeExempt(f))
         /\ \/ ~byIssue /\ ~bySite /\ Apply(f, {})
            \/ byIssue /\ Drop(f, {})
            \/ bySite /\ Drop(f, {"thinned"})
         /\ UNCHANGED <<exemptN, denied>>
  BY Zenon DEF SpikeCheck
<1>3. ASSUME NEW ch \in SUBSET {"refused", "thinned"}, Drop(f, ch)
      PROVE  ch \in SUBSET Tallies /\ Gains(f, ch) /\ SameIssues /\ "created" \notin ch /\ "kept" \notin ch /\ "exempt" \notin ch
  BY <1>3, NotesGain DEF Drop, SameIssues, Tallies
<1> HIDE DEF counts, byIssue, bySite
<1>4. CASE f \in denied /\ Drop(f, {"refused"}) /\ UNCHANGED <<exemptN, denied>>
  <2>1. {"refused"} \in SUBSET {"refused", "thinned"} /\ "thinned" \notin {"refused"}
    OBVIOUS
  <2>2. Outcome(f, {"refused"})
    BY <1>1, <1>3, <1>4, <2>1 DEF Outcome, Charges, counts
  <2> QED BY <1>3, <1>4, <2>1, <2>2
<1>5. CASE NewIssueCap = 0 /\ Apply(f, {"exempt"}) /\ UNCHANGED <<exemptN, denied>>
  <2>1. PICK all \in SUBSET Tallies :
           /\ Gains(f, all)
           /\ \/ Applied(f) /\ ("created" \in all <=> issueOf[f] = "none")
              \/ SameIssues /\ "created" \notin all
           /\ "thinned" \notin all /\ "refused" \notin all /\ ("exempt" \in all <=> "exempt" \in {"exempt"})
    BY <1>5, Applies
  <2> QED BY <1>1, <1>5, <2>1 DEF Outcome, Charges, counts
<1>6. CASE /\ f \notin denied /\ NewIssueCap > 0 /\ exemptN' = exemptN + 1
           /\ exemptN < NewIssueCap /\ Apply(f, {"exempt"}) /\ UNCHANGED denied
  <2>1. PICK all \in SUBSET Tallies :
           /\ Gains(f, all)
           /\ \/ Applied(f) /\ ("created" \in all <=> issueOf[f] = "none")
              \/ SameIssues /\ "created" \notin all
           /\ "thinned" \notin all /\ "refused" \notin all /\ ("exempt" \in all <=> "exempt" \in {"exempt"})
    BY <1>6, Applies
  <2> QED BY <1>1, <1>6, <2>1 DEF Outcome, Charges, counts
<1>7. CASE /\ f \notin denied /\ NewIssueCap > 0 /\ exemptN' = exemptN + 1
           /\ exemptN >= NewIssueCap /\ denied' = Denied(f) /\ Drop(f, {"refused"})
  <2>1. {"refused"} \in SUBSET {"refused", "thinned"} /\ "thinned" \notin {"refused"}
    OBVIOUS
  <2>2. Outcome(f, {"refused"})
    BY <1>1, <1>3, <1>7, <2>1 DEF Outcome, Charges, counts
  <2> QED BY <1>3, <1>7, <2>1, <2>2
<1>8. CASE /\ f \notin denied /\ ~(Asked(f, byIssue \/ bySite) /\ SpikeExempt(f))
           /\ \/ ~byIssue /\ ~bySite /\ Apply(f, {})
              \/ byIssue /\ Drop(f, {})
              \/ bySite /\ Drop(f, {"thinned"})
           /\ UNCHANGED <<exemptN, denied>>
  <2>1. f \in Tracked \/ ~SpikeExempt(f)
    BY <1>8 DEF Asked
  <2>2. CASE ~byIssue /\ ~bySite /\ Apply(f, {})
    <3>1. PICK all \in SUBSET Tallies :
             /\ Gains(f, all)
             /\ \/ Applied(f) /\ ("created" \in all <=> issueOf[f] = "none")
                \/ SameIssues /\ "created" \notin all
             /\ "thinned" \notin all /\ "refused" \notin all /\ ("exempt" \in all <=> "exempt" \in {})
      BY <2>2, Applies
    <3> QED BY <1>1, <1>8, <2>1, <2>2, <3>1 DEF Outcome, Charges, counts, byIssue
  <2>3. CASE byIssue /\ Drop(f, {})
    <3>1. {} \in SUBSET {"refused", "thinned"} /\ "thinned" \notin {} /\ "refused" \notin {}
      OBVIOUS
    <3>2. Outcome(f, {})
      BY <1>1, <1>3, <1>8, <2>1, <2>3, <3>1 DEF Outcome, Charges, counts
    <3> QED BY <1>3, <2>3, <3>1, <3>2
  <2>4. CASE bySite /\ Drop(f, {"thinned"})
    <3>1. {"thinned"} \in SUBSET {"refused", "thinned"} /\ "refused" \notin {"thinned"}
      OBVIOUS
    <3>2. Outcome(f, {"thinned"})
      BY <1>1, <1>3, <1>8, <2>1, <2>4, <3>1 DEF Outcome, Charges, counts, bySite
    <3> QED BY <1>3, <2>4, <3>1, <3>2
  <2> QED BY <1>8, <2>2, <2>3, <2>4
<1> QED BY <1>2, <1>4, <1>5, <1>6, <1>7, <1>8

LEMMA RowsAreNat ==
  ASSUME GdTyped, NEW f \in Fingerprint, NEW x \in Tallies
  PROVE  spikeTally[f][x] \in Nat /\ spikeTally[f][x] =< siteN
<1>1. spikeTally[f] \in [Tallies -> 0..siteN] /\ siteN \in Nat
  BY GdConstants DEF GdTyped
<1> QED BY <1>1

LEMMA CheckKeepsTypes ==
  ASSUME GdTyped, NEW f \in Fingerprint, NEW ch \in SUBSET Tallies, Outcome(f, ch)
  PROVE  GdTyped'
<1>1. siteN \in Nat /\ siteN' = siteN + 1 /\ siteN' \in 0..MaxWindowEvents
  BY GdConstants DEF GdTyped, Outcome
<1>2. issueN' \in [Fingerprint -> 0..siteN']
  BY <1>1, CountsAre DEF Outcome
<1>3. exemptN' \in 0..siteN'
  <2>1. exemptN \in 0..siteN /\ exemptN' \in {exemptN, exemptN + 1}
    BY DEF GdTyped, Outcome, Charges
  <2> QED BY <1>1, <2>1
<1>4. denied' \subseteq Fingerprint
  BY DEF GdTyped, Outcome, Charges, Denied
<1>5. /\ issueOf' \in [Fingerprint -> {"none", "open", "resolved"}]
      /\ cachedIssue' \subseteq Fingerprint /\ \A other \in cachedIssue' : issueOf'[other] # "none"
  BY DEF GdTyped, Outcome, Applied, SameIssues
<1>6. spikeTally' \in [Fingerprint -> [Tallies -> 0..siteN']]
  BY <1>1 DEF Outcome, Gains
<1> QED BY <1>1, <1>2, <1>3, <1>4, <1>5, <1>6 DEF GdTyped

LEMMA CheckCharges ==
  ASSUME GdTyped, GdNew, NewIssueCap > 0, NEW f \in Fingerprint, NEW ch \in SUBSET Tallies, Outcome(f, ch)
  PROVE  \A other \in Fingerprint : GdCharged(other)'
<1>1. /\ NewIssueCap \in Nat /\ exemptN \in Nat /\ MaxTrackedFingerprints \in Nat
      /\ denied \subseteq Fingerprint /\ issueN \in [Fingerprint -> 0..siteN] /\ siteN \in Nat
  BY GdConstants DEF GdTyped
<1>2. exemptN' >= exemptN /\ exemptN' \in Nat
  BY <1>1 DEF Outcome, Charges
<1>3. denied \subseteq denied' /\ denied' \subseteq denied \cup {f}
      /\ (f \in denied' => f \in denied \/ exemptN' > NewIssueCap)
  BY <1>1 DEF Outcome, Charges, Denied
<1>4. ASSUME NEW other \in Fingerprint, other # f
      PROVE  GdCharged(other)'
  <2>1. /\ spikeTally'[other] = spikeTally[other] /\ issueOf'[other] = issueOf[other]
        /\ issueN'[other] = issueN[other] /\ (other \in denied' <=> other \in denied)
    BY <1>3, <1>4, CountsAre DEF Outcome, Gains, Applied, SameIssues, GdTyped
  <2>2. GdCharged(other)
    BY DEF GdNew
  <2> QED BY <1>1, <1>2, <2>1, <2>2 DEF GdCharged
<1>5. GdCharged(f)'
  <2>0. /\ spikeTally[f]["created"] \in Nat /\ spikeTally[f]["exempt"] \in Nat /\ spikeTally[f]["refused"] \in Nat
    BY RowsAreNat DEF Tallies
  <2>1. /\ spikeTally'[f]["created"] = spikeTally[f]["created"] + (IF "created" \in ch THEN 1 ELSE 0)
        /\ spikeTally'[f]["exempt"] = spikeTally[f]["exempt"] + (IF "exempt" \in ch THEN 1 ELSE 0)
        /\ spikeTally'[f]["refused"] = spikeTally[f]["refused"] + (IF "refused" \in ch THEN 1 ELSE 0)
    BY DEF Outcome, Gains, Tallies
  <2>2. GdCharged(f)
    BY DEF GdNew
  <2>3. /\ "created" \in ch => issueOf[f] = "none" /\ issueOf'[f] # "none"
        /\ issueOf'[f] = "none" => issueOf[f] = "none"
        /\ issueOf[f] = "none" => f \notin cachedIssue
    BY DEF Outcome, Applied, SameIssues, GdTyped
  <2>4. issueOf[f] = "none" => SpikeExempt(f)
    BY <2>3 DEF SpikeExempt
  <2>5. f \in Tracked <=> issueN[f] > 0
    BY DEF Tracked
  <2>6. /\ Charges(f, ch) /\ f \in Fingerprint
        /\ (issueOf[f] = "none" /\ f \notin denied /\ issueN[f] > 0 => spikeTally[f]["exempt"] >= 1)
        /\ (f \in denied \/ spikeTally[f]["refused"] > 0 => exemptN > NewIssueCap)
        /\ (spikeTally[f]["created"] > 0 => issueOf[f] # "none")
        /\ spikeTally[f]["created"] =< spikeTally[f]["exempt"]
    BY <2>2 DEF Outcome, GdCharged
  <2>7. spikeTally'[f]["created"] =< spikeTally'[f]["exempt"]
    <3>1. CASE "created" \in ch /\ "exempt" \notin ch
      <4>1. issueOf[f] = "none" /\ spikeTally[f]["created"] = 0
        BY <2>0, <2>3, <2>6, <3>1
      <4>2. f \notin denied /\ issueN[f] > 0
        BY <1>1, <2>4, <2>5, <2>6, <3>1, <4>1 DEF Charges
      <4>3. spikeTally[f]["exempt"] >= 1
        BY <2>6, <4>1, <4>2
      <4> QED BY <2>0, <2>1, <3>1, <4>1, <4>3
    <3>2. CASE "created" \notin ch \/ "exempt" \in ch
      BY <2>0, <2>1, <2>6, <3>2
    <3> QED BY <3>1, <3>2
  <2>8. spikeTally'[f]["created"] > 0 => issueOf'[f] # "none"
    BY <2>0, <2>1, <2>3, <2>6
  <2>9. ASSUME issueN'[f] > 0, f \notin denied', issueOf'[f] = "none"
        PROVE  spikeTally'[f]["exempt"] >= 1
    <3>1. issueOf[f] = "none" /\ SpikeExempt(f) /\ f \notin denied
      BY <1>3, <2>3, <2>4, <2>9
    <3>2. CASE issueN[f] > 0
      BY <2>0, <2>1, <2>6, <3>1, <3>2
    <3>3. CASE ~(issueN[f] > 0)
      <4>1. Keys < MaxTrackedFingerprints
        <5>1. issueN'[f] = issueN[f] + (IF issueN[f] > 0 \/ Keys < MaxTrackedFingerprints THEN 1 ELSE 0)
          BY CountsAre DEF Outcome
        <5> QED BY <1>1, <2>9, <3>3, <5>1
      <4>2. denied \subseteq Tracked
        <5>1. Keys \in Nat
          BY KeysAre DEF Outcome
        <5> QED BY <1>1, <4>1, <5>1 DEF GdNew
      <4>3. Cardinality(denied) =< Keys /\ Cardinality(denied) \in Nat /\ Keys \in Nat
        <5>1. IsFiniteSet(Tracked)
          BY GdConstants, FS_Subset DEF Tracked
        <5> QED BY <4>2, <5>1, FS_Subset, FS_CardinalityType DEF Keys
      <4>4. Cardinality(denied) < MaxTrackedFingerprints
        BY <1>1, <4>1, <4>3
      <4>5. denied' # Denied(f)
        BY <2>9, <4>4 DEF Denied
      <4>6. "exempt" \in ch
        BY <1>1, <2>5, <2>6, <3>1, <3>3, <4>5 DEF Charges
      <4> QED BY <2>0, <2>1, <4>6
    <3> QED BY <3>2, <3>3
  <2>10. spikeTally'[f]["refused"] > 0 \/ f \in denied' => exemptN' > NewIssueCap
    <3>1. CASE f \in denied \/ spikeTally[f]["refused"] > 0
      BY <1>1, <1>2, <2>6, <3>1
    <3>2. CASE f \notin denied /\ ~(spikeTally[f]["refused"] > 0)
      <4>1. "refused" \in ch => exemptN' > NewIssueCap
        BY <1>1, <2>6, <3>2 DEF Charges
      <4> QED BY <1>3, <2>0, <2>1, <3>2, <4>1
    <3> QED BY <3>1, <3>2
  <2> QED BY <2>7, <2>8, <2>9, <2>10 DEF GdCharged
<1> QED BY <1>4, <1>5

LEMMA CheckKeepsNew ==
  ASSUME GdTyped, GdNew, NEW f \in Fingerprint, NEW ch \in SUBSET Tallies, Outcome(f, ch)
  PROVE  GdNew'
<1> SUFFICES ASSUME NewIssueCap > 0 PROVE GdNew'
  BY DEF GdNew
<1>1. /\ NewIssueCap \in Nat /\ exemptN \in Nat /\ MaxTrackedFingerprints \in Nat /\ siteN \in Nat
      /\ IsFiniteSet(Fingerprint)
  BY GdConstants DEF GdTyped
<1>2. \A other \in Fingerprint : GdCharged(other)'
  BY CheckCharges
<1>3. PICK now : now = spikeTally'
  OBVIOUS
<1> DEFINE d == IF "exempt" \in ch THEN 1 ELSE 0
           sum == SumsOf(spikeTally, "exempt", Fingerprint)[Fingerprint]
<1>4. SumsOf(now, "exempt", Fingerprint)[Fingerprint] = sum + d /\ sum \in Nat
  <2>1. d \in Nat
    OBVIOUS
  <2>2. \A x \in Fingerprint :
          spikeTally[x]["exempt"] \in Nat /\ now[x]["exempt"] = spikeTally[x]["exempt"] + (IF x = f THEN d ELSE 0)
    <3> TAKE x \in Fingerprint
    <3>1. spikeTally[x]["exempt"] \in Nat
      BY RowsAreNat DEF Tallies
    <3>2. CASE x = f
      BY <1>3, <3>1, <3>2 DEF Outcome, Gains, Tallies
    <3>3. CASE x # f
      BY <1>3, <3>1, <3>3 DEF Outcome, Gains
    <3> QED BY <3>2, <3>3, <3>1
  <2>3. IsFiniteSet(Fingerprint) /\ f \in Fingerprint
    BY <1>1
  <2> HIDE DEF d
  <2> QED BY ONLY <2>1, <2>2, <2>3, SumsMove
<1>5. sum =< exemptN /\ sum =< NewIssueCap
  BY DEF GdNew
<1> HIDE DEF sum
<1>6. sum + d =< exemptN' /\ sum + d =< NewIssueCap
  BY <1>1, <1>4, <1>5 DEF Outcome, Charges
<1>7. denied' \subseteq Tracked' \/ Keys' >= MaxTrackedFingerprints
  <2>1. /\ Keys \in Nat /\ Keys' \in Nat /\ Keys =< Keys' /\ Tracked \subseteq Tracked'
        /\ f \notin Tracked' => Keys >= MaxTrackedFingerprints
    BY KeysAre DEF Outcome
  <2>2. denied' \subseteq denied \cup {f}
    BY DEF Outcome, Charges, Denied
  <2>3. denied \subseteq Tracked \/ Keys >= MaxTrackedFingerprints
    BY DEF GdNew
  <2>4. CASE Keys >= MaxTrackedFingerprints
    BY <1>1, <2>1, <2>4
  <2>5. CASE ~(Keys >= MaxTrackedFingerprints)
    BY <2>1, <2>2, <2>3, <2>5
  <2> QED BY <2>4, <2>5
<1> QED BY <1>2, <1>3, <1>4, <1>6, <1>7 DEF GdNew

LEMMA CheckKeepsSteady ==
  ASSUME GdInv, NEW f \in Fingerprint, NEW ch \in SUBSET Tallies, Outcome(f, ch), NEW other \in Fingerprint
  PROVE  GdSteady(other)'
<1>1. /\ siteN \in Nat /\ siteN' = siteN + 1 /\ SiteCap \in Nat /\ MaxTrackedFingerprints \in Nat
      /\ issueN[other] \in Nat /\ issueN[f] \in Nat /\ 2 * SiteCap \in Nat
  <2>1. siteN \in Nat /\ issueN \in [Fingerprint -> 0..siteN]
    BY GdConstants DEF GdInv, GdTyped
  <2> QED BY <2>1, GdConstants DEF Outcome
<1>2. /\ Keys \in Nat /\ Keys' \in Nat /\ Keys =< Keys'
      /\ Keys' = Cardinality({x \in Fingerprint : CountedIssues(f)[x] > 0})
      /\ f \notin Tracked' => Keys >= MaxTrackedFingerprints
  BY KeysAre DEF Outcome, GdInv
<1>3. PICK keys \in Nat : keys = Keys'
  BY <1>2
<1>4. FairShare(keys) \in Nat /\ FairShare(Keys) \in Nat /\ FairShare(keys) =< FairShare(Keys)
  BY <1>2, <1>3, SharesFall
<1>5. /\ issueN' = CountedIssues(f) /\ issueN'[f] >= issueN[f] /\ issueN'[f] \in Nat
      /\ issueN'[f] = issueN[f] + (IF issueN[f] > 0 \/ Keys < MaxTrackedFingerprints THEN 1 ELSE 0)
      /\ \A x \in Fingerprint : x # f => issueN'[x] = issueN[x]
  <2>1. /\ issueN'[f] = issueN[f] + (IF issueN[f] > 0 \/ Keys < MaxTrackedFingerprints THEN 1 ELSE 0)
        /\ \A x \in Fingerprint : x # f => issueN'[x] = issueN[x]
    BY CountsAre DEF Outcome, GdInv
  <2> QED BY <1>1, <2>1 DEF Outcome
<1>6. issueN'[other] \in Nat /\ issueN'[other] >= issueN[other]
      /\ (issueN[other] = 0 /\ Keys >= MaxTrackedFingerprints => issueN'[other] = 0)
  BY <1>1, <1>2, <1>5
<1>7. CASE spikeTally[other]["thinned"] > 0
  <2>1. \/ siteN > 2 * SiteCap \/ issueN[other] > FairShare(Keys)
        \/ issueN[other] = 0 /\ Keys >= MaxTrackedFingerprints
    BY <1>7 DEF GdInv, GdSteady
  <2>2. \/ siteN' > 2 * SiteCap \/ issueN'[other] > FairShare(keys)
        \/ issueN'[other] = 0 /\ keys >= MaxTrackedFingerprints
    BY <1>1, <1>2, <1>3, <1>4, <1>6, <2>1
  <2> QED BY <1>3, <2>2 DEF GdSteady
<1>8. CASE ~(spikeTally[other]["thinned"] > 0) /\ ~(other = f /\ "thinned" \in ch)
  <2>1. spikeTally[other]["thinned"] \in Nat
    BY RowsAreNat DEF Tallies, GdInv
  <2>2. spikeTally'[other]["thinned"] = spikeTally[other]["thinned"]
    BY <1>8, <2>1 DEF Outcome, Gains, Tallies
  <2> QED BY <1>8, <2>2 DEF GdSteady
<1>9. CASE other = f /\ "thinned" \in ch
  <2>1. OverSite(f, CountedIssues(f))
    BY <1>9 DEF Outcome
  <2>2. ~(siteN' =< 2 * SiteCap /\ issueN'[f] > 0 /\ issueN'[f] =< FairShare(keys))
    BY <1>1, <1>2, <1>3, <1>5, <2>1 DEF OverSite
  <2>3. issueN'[f] = 0 => keys >= MaxTrackedFingerprints
    <3> SUFFICES ASSUME issueN'[f] = 0 PROVE keys >= MaxTrackedFingerprints
      OBVIOUS
    <3>1. ~(Keys < MaxTrackedFingerprints)
      BY <1>1, <1>5
    <3> QED BY <1>1, <1>2, <1>3, <3>1
  <2>4. \/ siteN' > 2 * SiteCap \/ issueN'[f] > FairShare(keys)
        \/ issueN'[f] = 0 /\ keys >= MaxTrackedFingerprints
    BY <1>1, <1>4, <1>5, <2>2, <2>3
  <2> QED BY <1>3, <1>9, <2>4 DEF GdSteady
<1> QED BY <1>7, <1>8, <1>9

LEMMA CheckKeepsFlood ==
  ASSUME GdInv, NEW f \in Fingerprint, NEW ch \in SUBSET Tallies, Outcome(f, ch), NEW other \in Fingerprint
  PROVE  GdFlood(other)'
<1>1. /\ siteN \in Nat /\ IssueCap \in Nat /\ MaxTrackedFingerprints \in Nat /\ issueN[f] \in Nat
  <2>1. siteN \in Nat /\ issueN \in [Fingerprint -> 0..siteN]
    BY GdConstants DEF GdInv, GdTyped
  <2> QED BY <2>1, GdConstants
<1>2. /\ Keys \in Nat /\ Keys' \in Nat /\ Keys =< Keys'
      /\ f \notin Tracked' => Keys >= MaxTrackedFingerprints
  BY KeysAre DEF Outcome, GdInv
<1>3. GdFlood(other) /\ GdFlood(f)
  BY DEF GdInv
<1>4. CASE other # f
  <2>1. issueN'[other] = issueN[other] /\ spikeTally'[other] = spikeTally[other]
    BY <1>4, CountsAre DEF Outcome, Gains, GdInv
  <2> QED BY <1>1, <1>2, <1>3, <2>1 DEF GdFlood, Quota
<1>5. CASE other = f
  <2> DEFINE n == issueN[f]
             kept == spikeTally[f]["kept"]
             free == spikeTally[f]["exempt"]
  <2>1. issueN'[f] = n + (IF n > 0 \/ Keys < MaxTrackedFingerprints THEN 1 ELSE 0)
    BY CountsAre DEF Outcome, GdInv
  <2>2. kept \in Nat /\ free \in Nat
    BY RowsAreNat DEF Tallies, GdInv
  <2>3. /\ spikeTally'[f]["kept"] = kept + (IF "kept" \in ch THEN 1 ELSE 0)
        /\ spikeTally'[f]["exempt"] = free + (IF "exempt" \in ch THEN 1 ELSE 0)
    BY DEF Outcome, Gains, Tallies
  <2>4. ~(issueN'[f] = 0 /\ Keys' < MaxTrackedFingerprints)
    <3> SUFFICES ASSUME issueN'[f] = 0, Keys' < MaxTrackedFingerprints PROVE FALSE
      OBVIOUS
    <3>1. Keys < MaxTrackedFingerprints
      BY <1>1, <1>2
    <3> QED BY <1>1, <2>1, <3>1
  <2>5. ASSUME issueN'[f] > 0, IssueCap > 0
        PROVE  spikeTally'[f]["kept"] =< Quota(issueN[f])' + spikeTally'[f]["exempt"]
    <3>1. issueN'[f] = n + 1
      BY <1>1, <2>1, <2>5
    <3>2. Quota(n) \in Nat
      BY <1>1, QuotaGrows
    <3>3. kept =< Quota(n) + free
      <4>1. CASE n > 0
        BY <1>3, <2>5, <4>1 DEF GdFlood
      <4>2. CASE ~(n > 0)
        <5>1. n = 0 /\ Keys < MaxTrackedFingerprints
          BY <1>1, <2>1, <2>5, <4>2
        <5>2. kept = 0
          BY <1>3, <5>1 DEF GdFlood
        <5> QED BY <2>2, <3>2, <5>2
      <4> QED BY <4>1, <4>2
    <3>4. /\ Quota(n + 1) \in Nat /\ Quota(n) =< Quota(n + 1)
          /\ n + 1 =< IssueCap \/ ~Thinned(n + 1, IssueCap) => Quota(n + 1) = Quota(n) + 1
      <4>1. n \in Nat /\ n + 1 \in Nat
        BY <1>1
      <4>2. Quota(n + 1) \in Nat
        BY <4>1, QuotaGrows
      <4> QED BY <4>1, <4>2, QuotaGrows
    <3>5. "kept" \in ch /\ "exempt" \notin ch => Quota(n + 1) = Quota(n) + 1
      <4> SUFFICES ASSUME "kept" \in ch, "exempt" \notin ch PROVE Quota(n + 1) = Quota(n) + 1
        OBVIOUS
      <4>1. CountedIssues(f)[f] = n + 1
        BY <3>1 DEF Outcome
      <4>2. ~(OverIssue(f, CountedIssues(f)) /\ Thinned(n + 1, IssueCap))
        BY <4>1 DEF Outcome
      <4>3. n + 1 =< IssueCap \/ ~Thinned(n + 1, IssueCap)
        BY <1>1, <2>5, <4>1, <4>2 DEF OverIssue
      <4> QED BY <3>4, <4>3
    <3>6. Quota(issueN[f])' = Quota(n + 1)
      BY <3>1 DEF Quota
    <3> HIDE DEF n, kept, free
    <3>7. spikeTally'[f]["kept"] =< Quota(n + 1) + spikeTally'[f]["exempt"]
      BY <2>2, <2>3, <3>2, <3>3, <3>4, <3>5
    <3> QED BY <3>6, <3>7
  <2> QED BY <1>5, <2>4, <2>5 DEF GdFlood
<1> QED BY <1>4, <1>5

\* A window in which nothing was seen.
GdEmpty ==
  /\ siteN = 0 /\ issueN = [f \in Fingerprint |-> 0]
  /\ exemptN = 0 /\ denied = {} /\ spikeTally = [f \in Fingerprint |-> NoTally]

\* The issues there are, and those whose entry is cached.
GdIssues ==
  /\ issueOf \in [Fingerprint -> {"none", "open", "resolved"}]
  /\ cachedIssue \subseteq Fingerprint /\ \A f \in cachedIssue : issueOf[f] # "none"

LEMMA EmptyWindowIsFine == GdEmpty /\ GdIssues => GdInv
<1> SUFFICES ASSUME GdEmpty, GdIssues PROVE GdInv
  OBVIOUS
<1>1. \A f \in Fingerprint : issueN[f] = 0 /\ \A x \in Tallies : spikeTally[f][x] = 0
  BY TalliesAre DEF GdEmpty
<1>2. GdTyped
  <2>1. NoTally \in [Tallies -> 0..0]
    <3>1. NoTally = [x \in DOMAIN NoTally |-> NoTally[x]]
      BY DEF NoTally
    <3> QED BY <3>1, TalliesAre
  <2>2. siteN \in 0..MaxWindowEvents
    BY GdConstants DEF GdEmpty
  <2>3. spikeTally \in [Fingerprint -> [Tallies -> 0..siteN]] /\ issueN \in [Fingerprint -> 0..siteN]
    BY <2>1 DEF GdEmpty
  <2>4. exemptN \in 0..siteN /\ denied \subseteq Fingerprint
    BY DEF GdEmpty
  <2> QED BY <2>2, <2>3, <2>4 DEF GdTyped, GdIssues
<1>3. GdNew
  <2>1. NewIssueCap \in Nat /\ IsFiniteSet(Fingerprint)
    BY GdConstants
  <2>2. \A f \in Fingerprint : spikeTally[f]["exempt"] = 0
    BY <1>1 DEF Tallies
  <2>3. SumsOf(spikeTally, "exempt", Fingerprint)[Fingerprint] = 0
    BY <2>1, <2>2, SumsOfNothing
  <2>4. \A f \in Fingerprint : GdCharged(f)
    BY <1>1 DEF GdCharged, GdEmpty, Tallies
  <2> QED BY <2>1, <2>3, <2>4 DEF GdNew, GdEmpty
<1>4. \A f \in Fingerprint : GdSteady(f) /\ GdFlood(f)
  <2> TAKE f \in Fingerprint
  <2>1. spikeTally[f]["thinned"] = 0 /\ spikeTally[f]["kept"] = 0 /\ issueN[f] = 0
    BY <1>1 DEF Tallies
  <2> QED BY <2>1 DEF GdSteady, GdFlood
<1> QED BY <1>2, <1>3, <1>4 DEF GdInv

LEMMA RolledWindowIsFine == GdEmpty' /\ GdIssues' => GdInv'
BY EmptyWindowIsFine, PTL

LEMMA SpikeStarts == SpikeInit => GdInv
<1> SUFFICES ASSUME SpikeInit PROVE GdInv
  OBVIOUS
<1>1. GdEmpty
  BY DEF SpikeInit, FreshWindow, GdEmpty
<1>2. issueOf \in [Fingerprint -> {"none", "open", "resolved"}] /\ cachedIssue = {}
  BY DEF SpikeInit
<1> QED BY <1>1, <1>2, EmptyWindowIsFine DEF GdIssues

LEMMA SpikeSteps == GdInv /\ [SpikeNext]_spikeVars => GdInv'
<1> SUFFICES ASSUME GdInv, [SpikeNext]_spikeVars PROVE GdInv'
  OBVIOUS
<1>1. ASSUME NEW f \in Fingerprint, SpikeCheck(f) PROVE GdInv'
  <2>1. PICK ch \in SUBSET Tallies : Outcome(f, ch)
    BY <1>1, ChecksComeOut DEF GdInv
  <2>2. GdTyped'
    BY <2>1, CheckKeepsTypes DEF GdInv
  <2>3. GdNew'
    BY <2>1, CheckKeepsNew DEF GdInv
  <2>4. \A other \in Fingerprint : GdSteady(other)'
    BY <2>1, CheckKeepsSteady
  <2>5. \A other \in Fingerprint : GdFlood(other)'
    BY <2>1, CheckKeepsFlood
  <2> QED BY <2>2, <2>3, <2>4, <2>5 DEF GdInv
<1>2. ASSUME /\ siteN' = siteN /\ issueN' = issueN /\ exemptN' = exemptN
             /\ denied' = denied /\ spikeTally' = spikeTally,
             /\ issueOf' \in [Fingerprint -> {"none", "open", "resolved"}]
             /\ \A f \in Fingerprint : issueOf'[f] = "none" <=> issueOf[f] = "none",
             cachedIssue' \subseteq cachedIssue
      PROVE  GdInv'
  <2>1. Tracked' = Tracked /\ Keys' = Keys
    BY <1>2 DEF Tracked, Keys
  <2>2. GdTyped'
    BY <1>2 DEF GdInv, GdTyped
  <2>3. \A f \in Fingerprint : GdCharged(f) => GdCharged(f)'
    BY <1>2 DEF GdCharged
  <2>4. GdNew'
    BY <1>2, <2>1, <2>3 DEF GdInv, GdNew
  <2>5. \A f \in Fingerprint : GdSteady(f)' /\ GdFlood(f)'
    BY <1>2, <2>1 DEF GdInv, GdSteady, GdFlood, FairShare, Quota
  <2> QED BY <2>2, <2>4, <2>5 DEF GdInv
<1>3. ASSUME NEW f \in Fingerprint, EvictIssue(f) PROVE GdInv'
  <2>1. issueOf' \in [Fingerprint -> {"none", "open", "resolved"}]
    BY <1>3 DEF EvictIssue, GdInv, GdTyped
  <2> QED BY <1>2, <1>3, <2>1 DEF EvictIssue
<1>4. ASSUME NEW f \in Fingerprint, ResolveIssue(f) PROVE GdInv'
  <2>1. /\ issueOf' \in [Fingerprint -> {"none", "open", "resolved"}]
        /\ \A other \in Fingerprint : issueOf'[other] = "none" <=> issueOf[other] = "none"
    BY <1>4 DEF ResolveIssue, GdInv, GdTyped
  <2> QED BY <1>2, <1>4, <2>1 DEF ResolveIssue
<1>5. CASE RollWindow
  <2>1. GdEmpty' /\ issueOf' = issueOf /\ cachedIssue' = cachedIssue
    BY <1>5 DEF RollWindow, GdEmpty
  <2>2. GdIssues'
    BY <2>1 DEF GdInv, GdTyped, GdIssues
  <2> QED BY <2>1, <2>2, RolledWindowIsFine
<1>6. CASE UNCHANGED spikeVars
  <2>1. issueOf' \in [Fingerprint -> {"none", "open", "resolved"}]
    BY <1>6 DEF spikeVars, GdInv, GdTyped
  <2> QED BY <1>2, <1>6, <2>1 DEF spikeVars
<1> QED BY <1>1, <1>3, <1>4, <1>5, <1>6 DEF SpikeNext

LEMMA SpikeIsSound == GdInv => SpikeTypeOK /\ SpikeSound
<1> SUFFICES ASSUME GdInv PROVE SpikeTypeOK /\ SpikeSound
  OBVIOUS
<1>1. GdTyped /\ siteN \in Nat /\ MaxWindowEvents \in Nat /\ siteN =< MaxWindowEvents
  BY GdConstants DEF GdInv, GdTyped
<1>2. SpikeTypeOK
  BY <1>1, TalliesAre DEF GdTyped, SpikeTypeOK
<1>3. NewIssuesBounded
  <2> SUFFICES ASSUME NewIssueCap > 0
               PROVE  /\ MapThenSumSet(LAMBDA f : spikeTally[f].created, Fingerprint) =< NewIssueCap
                      /\ (\E f \in Fingerprint : spikeTally[f].refused > 0) => exemptN > NewIssueCap
    BY DEF NewIssuesBounded
  <2>1. \A f \in Fingerprint : GdCharged(f)
    BY DEF GdInv, GdNew
  <2>2. \A f \in Fingerprint : /\ spikeTally[f]["created"] \in Nat /\ spikeTally[f]["exempt"] \in Nat
                               /\ spikeTally[f]["created"] =< spikeTally[f]["exempt"]
    BY <1>1, <2>1, RowsAreNat DEF GdCharged, Tallies
  <2>3. SumsOf(spikeTally, "created", Fingerprint)[Fingerprint]
          =< SumsOf(spikeTally, "exempt", Fingerprint)[Fingerprint]
    BY <2>2, GdConstants, SumsCompare
  <2>4. /\ SumsOf(spikeTally, "created", Fingerprint)[Fingerprint] \in Nat
        /\ SumsOf(spikeTally, "exempt", Fingerprint)[Fingerprint] \in Nat
    BY <2>2, GdConstants, SumsAreNat
  <2>5. SumsOf(spikeTally, "exempt", Fingerprint)[Fingerprint] =< NewIssueCap
    BY DEF GdInv, GdNew
  <2>6. SumsOf(spikeTally, "created", Fingerprint)[Fingerprint] =< NewIssueCap
    BY <2>3, <2>4, <2>5, GdConstants
  <2>7. (\E f \in Fingerprint : spikeTally[f].refused > 0) => exemptN > NewIssueCap
    BY <2>1 DEF GdCharged
  <2> QED BY <2>6, <2>7, CreatedIs
<1>4. SteadyKept
  <2> SUFFICES ASSUME NEW f \in Tracked, siteN =< 2 * SiteCap, issueN[f] =< FairShare(Keys)
               PROVE  spikeTally[f]["thinned"] = 0
    BY DEF SteadyKept, Keys
  <2>1. f \in Fingerprint /\ issueN[f] > 0
    BY DEF Tracked
  <2>2. issueN[f] \in Nat /\ Keys \in Nat /\ SiteCap \in Nat
    <3>1. IsFiniteSet(Tracked)
      BY GdConstants, FS_Subset DEF Tracked
    <3>2. Keys \in Nat
      BY <3>1, FS_CardinalityType DEF Keys
    <3>3. issueN \in [Fingerprint -> 0..siteN]
      BY <1>1 DEF GdTyped
    <3> QED BY <1>1, <2>1, <3>2, <3>3, GdConstants
  <2>3. FairShare(Keys) \in Nat
    BY <2>2, SharesFall
  <2>4. spikeTally[f]["thinned"] \in Nat
    BY <1>1, <2>1, RowsAreNat DEF Tallies
  <2>5. GdSteady(f)
    BY <2>1 DEF GdInv
  <2>6. ~(spikeTally[f]["thinned"] > 0)
    BY <1>1, <2>1, <2>2, <2>3, <2>5 DEF GdSteady
  <2> QED BY <2>4, <2>6
<1>5. FloodThinned
  <2> SUFFICES ASSUME NEW f \in Tracked, IssueCap > 0, issueN[f] > IssueCap
               PROVE  spikeTally[f]["kept"] =< IssueCap + (issueN[f] - IssueCap) \div SampleN + spikeTally[f]["exempt"]
    BY DEF FloodThinned
  <2>1. f \in Fingerprint /\ issueN[f] > 0
    BY DEF Tracked
  <2>2. spikeTally[f]["kept"] =< Quota(issueN[f]) + spikeTally[f]["exempt"]
    BY <2>1 DEF GdInv, GdFlood
  <2>3. issueN[f] \in Nat /\ IssueCap \in Nat
    <3>1. issueN \in [Fingerprint -> 0..siteN]
      BY <1>1 DEF GdTyped
    <3> QED BY <1>1, <2>1, <3>1, GdConstants
  <2>4. Quota(issueN[f]) = IssueCap + (issueN[f] - IssueCap) \div SampleN
    BY <2>3 DEF Quota
  <2> QED BY <2>2, <2>4
<1> QED BY <1>2, <1>3, <1>4, <1>5 DEF SpikeSound

(* Whatever fingerprints come, however often applies fail and caches lose  *)
(* entries, and however small the maps: no more issues are made in a       *)
(* window than its cap says, an issue within its share of the site loses   *)
(* nothing to it, and past its own cap an issue keeps one event in         *)
(* SampleN, besides what was admitted as new.                              *)
THEOREM GuardTheorem == SpikeSpec => [](SpikeTypeOK /\ SpikeSound)
<1>1. SpikeInit => GdInv
  BY SpikeStarts
<1>2. GdInv /\ [SpikeNext]_spikeVars => GdInv'
  BY SpikeSteps
<1>3. GdInv => SpikeTypeOK /\ SpikeSound
  BY SpikeIsSound
<1> QED BY <1>1, <1>2, <1>3, PTL DEF SpikeSpec
==============================================================================
