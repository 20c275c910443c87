---------------------------- MODULE OutboxProofs ----------------------------
(***************************************************************************)
(* For any exports, handlers, budgets, clocks and faults, and any number   *)
(* of crashes, stops and prunes: what an answered export owes is derived   *)
(* or still pending (DerivedOrKept), settled intents stay settled          *)
(* (SettledForGood), and only interruptions count a detection again        *)
(* (OvercountBounded).                                                     *)
(***************************************************************************)
EXTENDS Outbox, TLAPS

-----------------------------------------------------------------------------
(* The inductive invariant.                                                *)

DataType ==
  /\ answer \in [Export -> {"none", "ok", "deriving", "refused"}]
  /\ rows \in [Intent -> SUBSET Row]
  /\ backoff \subseteq Intent
  /\ written \in [Intent -> [Item -> 0..Cap]]
  /\ marked \subseteq Intent \X Item
  /\ proc \in {"up", "stopping", "down"} /\ budget \in Budget
  /\ pass \in {"idle", "due"} \cup Export
  /\ batch \subseteq Intent
  /\ current = Free \/ current \in [intent : Intent, row : Row]
  /\ todo \subseteq Item /\ unmarked \in todo \cup {None} /\ failed \in BOOLEAN
  /\ crashes \in Nat /\ stops \in Nat /\ prunes \in Nat

Taking == current # Free

(* What a pass holds: nothing between two intents, and a seed pass only    *)
(* intents of its export, whose caller still waits.                        *)
PassShape ==
  /\ ~Taking => todo = {} /\ unmarked = None /\ ~failed
  /\ failed => unmarked = None
  /\ Taking => Taken \notin batch
  /\ pass = "idle" => batch = {} /\ ~Taking
  /\ proc = "down" => pass = "idle"
  /\ \A e \in Export : answer[e] = "deriving" => e \in Seed
  /\ pass \in Export => /\ answer[pass] = "deriving"
                        /\ \A i \in batch : i[1] = pass
                        /\ Taking => Taken[1] = pass

(* Versions of an intent are distinct, and the row a pass has taken is the *)
(* newest while it holds it: the highest version can be advanced.          *)
VersionsAdvance ==
  /\ \A i \in Intent : answer[i[1]] = "none" => rows[i] = {}
  /\ \A i \in Intent : \A r, s \in rows[i] : r.version = s.version => r = s
  /\ Taking => /\ answer[Taken[1]] # "none"
               /\ \A s \in rows[Taken] : s.version =< current.row.version

Open(r) == ~r.processed /\ ~r.dead /\ r.attempts < budget

(* A pass over what is due holds unsettled intents only.                   *)
DueOpen ==
  pass = "due" => /\ \A i \in batch : \E r \in Latest(i) : Open(r)
                  /\ Taking => current.row \in rows[Taken] /\ Open(current.row)

(* What is neither to be handled nor written has been written before.      *)
WorkDone ==
  /\ \A i \in Intent : \A w \in Item : <<i, w>> \in marked => written[i][w] > 0
  /\ Taking => \A w \in Work(Taken) : w \in todo \/ written[Taken][w] > 0
  /\ unmarked # None => written[Taken][unmarked] > 0
  /\ \A i \in Intent : \A r \in rows[i] : r.processed => Complete(i)

Owed == \A i \in Intent :
  answer[i[1]] \in {"ok", "deriving"} => Complete(i) \/ Latest(i) # {}

(* No budget is exceeded but by the one pass that does not ask for it.     *)
Within(r) == \E b \in Budget : r.attempts =< b
AttemptsBounded ==
  /\ \A i \in Intent : \A r \in rows[i] : \E b \in Budget : r.attempts =< b + 1
  /\ \A i \in Intent : /\ answer[i[1]] = "deriving"
                       /\ pass = i[1] => i \in batch \/ (Taking /\ i = Taken)
                       => \A r \in rows[i] : Within(r)
  /\ Taking => Within(current.row)

(* Interruptions that could still come, in a process that stops: of the    *)
(* pass under way and of a seed pass after it.                             *)
Extra(i) == IF i[1] \in Seed THEN 2 ELSE 1
Ahead(i) ==
  CASE proc # "stopping" -> 0
    [] proc = "stopping" /\ pass = "due" /\ ~failed -> Extra(i)
    [] OTHER -> Extra(i) - 1

(* Each count beyond the first is an interruption; a marked item is never  *)
(* written again, and the one that is written and not marked is one        *)
(* interruption short.                                                     *)
Toll(i) == crashes + Extra(i) * stops
Unsettled(i, w) == IF Taking /\ Taken = i /\ unmarked = w THEN 1 ELSE 0
Explained(i, w) ==
  IF <<i, w>> \in marked THEN written[i][w] =< Toll(i) + 1
  ELSE written[i][w] + Ahead(i) =< Toll(i) + Unsettled(i, w)
CountsExplained ==
  \A i \in Intent : i[2] = "detector" => \A w \in Work(i) : Explained(i, w)

OutboxInv ==
  /\ DataType /\ PassShape /\ VersionsAdvance /\ DueOpen
  /\ WorkDone /\ Owed /\ AttemptsBounded

-----------------------------------------------------------------------------
(* The steps.                                                              *)

(* Intents are pairs of an export and a kind; the work of one is a set of  *)
(* items.                                                                  *)
LEMMA IntentParts ==
  /\ \A i \in Intent : i[1] \in Export /\ i[2] \in {"rollup", "detector"} /\ i = <<i[1], i[2]>>
  /\ \A i \in Intent : Work(i) \subseteq Item
  /\ Cap \in Nat /\ Cap > 0
  /\ Budget \subseteq Nat /\ Now \subseteq Nat
  BY OutboxAssumption DEF Intent, Work, Item, Cap

(* What a pass has taken is an intent and a row of it.                     *)
LEMMA TakenType ==
  ASSUME DataType
  PROVE  Taking => Taken \in Intent /\ current.row \in Row
  BY DEF DataType, Taking, Taken

(* Either disposition of the row taken (outbox.go:304, :333) is a row with *)
(* a higher version.                                                       *)
LEMMA RowsPut ==
  ASSUME DataType, Taking, NEW now \in Now
  PROVE  /\ ProcessedRow(now) \in Row /\ FailedRow(now) \in Row
         /\ ProcessedRow(now).version > current.row.version
         /\ FailedRow(now).version > current.row.version
         /\ ProcessedRow(now).processed /\ ~FailedRow(now).processed
         /\ ProcessedRow(now).attempts = current.row.attempts
         /\ FailedRow(now).attempts = current.row.attempts + 1
<1>1. now \in Nat /\ current.row \in Row
  BY IntentParts, TakenType
<1> DEFINE v == NextVersion(current.row.version, now)
<1>2. v \in Nat /\ v > current.row.version
  BY <1>1 DEF NextVersion, Row
<1>3. ProcessedRow(now) = [current.row EXCEPT !.version = v, !.processed = TRUE]
  BY <1>1 DEF ProcessedRow, Row
<1>4. /\ FailedRow(now).version = v /\ FailedRow(now).attempts = current.row.attempts + 1
      /\ FailedRow(now).processed = FALSE
      /\ FailedRow(now) = [version |-> v, attempts |-> current.row.attempts + 1,
                           dead |-> Spent(current.row.attempts + 1), processed |-> FALSE]
  BY DEF FailedRow
<1>5. Spent(current.row.attempts + 1) \in BOOLEAN
  BY DEF Spent
<1> HIDE DEF v
<1>6. /\ ProcessedRow(now).version = v /\ ProcessedRow(now).processed = TRUE
      /\ ProcessedRow(now).attempts = current.row.attempts
      /\ ProcessedRow(now) \in Row
  BY <1>1, <1>2, <1>3 DEF Row
<1>7. FailedRow(now) \in Row
  BY <1>1, <1>2, <1>4, <1>5 DEF Row
<1> QED BY <1>1, <1>2, <1>4, <1>6, <1>7

(* A disposition adds its row to the intent taken and to no other.         *)
LEMMA Puts ==
  ASSUME DataType, Taking, NEW r \in Row, Put(r)
  PROVE  /\ rows' \in [Intent -> SUBSET Row]
         /\ rows'[Taken] = rows[Taken] \cup {r}
         /\ \A i \in Intent : i # Taken => rows'[i] = rows[i]
<1> QED BY TakenType DEF Put, DataType

(* A write of an item adds at most one to its count and lowers none.       *)
LEMMA Adds ==
  ASSUME DataType, Taking, NEW w \in Item, AddOne(w)
  PROVE  /\ written' \in [Intent -> [Item -> 0..Cap]]
         /\ written'[Taken][w] > 0 /\ written'[Taken][w] =< written[Taken][w] + 1
         /\ \A i \in Intent : \A x \in Item : written'[i][x] >= written[i][x]
         /\ \A i \in Intent : \A x \in Item :
              i # Taken \/ x # w => written'[i][x] = written[i][x]
<1>1. Taken \in Intent /\ written[Taken][w] \in 0..Cap /\ Cap \in Nat /\ Cap > 0
  BY TakenType, IntentParts DEF DataType
<1> DEFINE n == IF written[Taken][w] < Cap THEN written[Taken][w] + 1 ELSE written[Taken][w]
<1>2. n \in 0..Cap /\ n > 0 /\ n >= written[Taken][w] /\ n =< written[Taken][w] + 1
  BY <1>1
<1>3. written' = [written EXCEPT ![Taken] = [written[Taken] EXCEPT ![w] = n]]
  BY <1>1 DEF AddOne, DataType
<1> HIDE DEF n
<1>4. \A i \in Intent : \A x \in Item : written[i][x] \in Nat
  BY <1>1 DEF DataType
<1> QED BY <1>1, <1>2, <1>3, <1>4 DEF DataType

(* Types.                                                                  *)
LEMMA TypeStep == OutboxInv /\ [Next]_vars => DataType'
<1> SUFFICES ASSUME OutboxInv, [Next]_vars  PROVE DataType'
  OBVIOUS
<1>a. /\ DataType /\ PassShape
      /\ Taking => Taken \in Intent /\ current.row \in Row
  BY TakenType DEF OutboxInv
<1>b. /\ unmarked # None => Taking /\ unmarked \in todo
      /\ todo # {} => Taking
      /\ failed => Taking
  BY <1>a DEF PassShape, DataType
<1>1. ASSUME NEW e \in Export, Ingest(e)  PROVE DataType'
  <2>1. PICK now \in Now : Enqueued(e, now)
    BY <1>1 DEF Ingest
  <2>2. Fresh(now) \in Row
    BY IntentParts DEF Fresh, Row
  <2>3. rows' \in [Intent -> SUBSET Row]
    BY <1>a, <2>1, <2>2 DEF Enqueued, DataType
  <2>4. answer' \in [Export -> {"none", "ok", "deriving", "refused"}]
    BY <1>1, <1>a DEF Ingest, DataType
  <2> QED BY <1>1, <1>a, <2>3, <2>4 DEF DataType, Ingest, tables, worker, handler
<1>2. ASSUME NEW e \in Export, IngestFails(e)  PROVE DataType'
  BY <1>2, <1>a, <1>b, IntentParts, NoIntent
  DEF DataType, IngestFails, worker, handler
<1>3. ASSUME NEW e \in Export, ProcessIDs(e)  PROVE DataType'
  BY <1>3, <1>a, <1>b, IntentParts, NoIntent DEF DataType, ProcessIDs, tables, handler
<1>4. ASSUME ProcessDue  PROVE DataType'
  BY <1>4, <1>a, <1>b, IntentParts, NoIntent DEF DataType, ProcessDue, tables, handler
<1>5. ASSUME PassEnds  PROVE DataType'
  BY <1>5, <1>a, <1>b, IntentParts, NoIntent DEF DataType, PassEnds, Idle, Returned
<1>6. ASSUME NEW i \in Intent, Take(i)  PROVE DataType'
  <2>1. PICK r \in Latest(i) : current' = [intent |-> i, row |-> r]
    BY <1>6 DEF Take
  <2>2. r \in Row
    BY <1>a DEF Latest, DataType
  <2>3. current' \in [intent : Intent, row : Row]
    BY <2>1, <2>2
  <2>4. todo' \subseteq Item /\ unmarked' = None /\ failed' = FALSE /\ batch' \subseteq Intent
    BY <1>6, <1>a, IntentParts DEF Take, DataType
  <2> QED BY <1>6, <1>a, <2>3, <2>4 DEF DataType, Take, tables
<1>7. ASSUME NEW i \in Intent, Missing(i)  PROVE DataType'
  BY <1>7, <1>a, <1>b, IntentParts, NoIntent DEF DataType, Missing, tables, handler
<1>8. ASSUME NEW w \in Item, SkipMarked(w)  PROVE DataType'
  BY <1>8, <1>a, <1>b, IntentParts, NoIntent DEF DataType, SkipMarked, AtItem, tables
<1>9. ASSUME NEW w \in Item, WriteItem(w)  PROVE DataType'
  BY <1>9, <1>a, <1>b, IntentParts, NoIntent DEF DataType, WriteItem, AtItem, AddOne
<1>10. ASSUME NEW w \in Item, WriteItemFails(w)  PROVE DataType'
  <2>1. written' \in [Intent -> [Item -> 0..Cap]]
    BY <1>10, <1>a, <1>b, Adds DEF WriteItemFails, AtItem, DataType
  <2> QED BY <1>10, <1>a, <2>1 DEF DataType, WriteItemFails, AfterFailure
<1>11. ASSUME MarkItem  PROVE DataType'
  BY <1>11, <1>a, <1>b, IntentParts, NoIntent DEF DataType, MarkItem
<1>12. ASSUME MarkItemFails  PROVE DataType'
  BY <1>12, <1>a, <1>b, IntentParts, NoIntent DEF DataType, MarkItemFails
<1>13. ASSUME MarkProcessed  PROVE DataType'
  <2>1. PICK now \in Now : Put(ProcessedRow(now))
    BY <1>13 DEF MarkProcessed
  <2>2. rows' \in [Intent -> SUBSET Row]
    BY <1>13, <1>a, <2>1, RowsPut, Puts DEF MarkProcessed, Derived, Taking
  <2> QED BY <1>13, <1>a, <2>2 DEF DataType, MarkProcessed, Disposed
<1>14. ASSUME MarkAttempt  PROVE DataType'
  <2>1. PICK now \in Now : Put(FailedRow(now))
    BY <1>14 DEF MarkAttempt, PutFailed
  <2>2. rows' \in [Intent -> SUBSET Row] /\ backoff' \subseteq Intent
    BY <1>14, <1>a, <1>b, <2>1, RowsPut, Puts DEF MarkAttempt, PutFailed, DataType
  <2> QED BY <1>14, <1>a, <2>2 DEF DataType, MarkAttempt, Disposed
<1>15. ASSUME DispositionFails  PROVE DataType'
  <2>1. Taking
    BY <1>15, <1>b DEF DispositionFails, Derived, Taking
  <2>2. rows' \in [Intent -> SUBSET Row] /\ backoff' \subseteq Intent
    BY <1>15, <1>a, <2>1, RowsPut, Puts DEF DispositionFails, PutFailed, DataType
  <2>3. answer' \in [Export -> {"none", "ok", "deriving", "refused"}]
    BY <1>15, <1>a DEF DispositionFails, Returned, DataType
  <2> QED BY <1>15, <1>a, <2>2, <2>3 DEF DataType, DispositionFails, Returned, Idle
<1>16. ASSUME NEW i \in Intent, BackoffEnds(i)  PROVE DataType'
  BY <1>16, <1>a, <1>b, IntentParts, NoIntent
  DEF DataType, BackoffEnds, worker, handler
<1>17. ASSUME NEW i \in Intent, Prune(i)  PROVE DataType'
  BY <1>17, <1>a, <1>b, IntentParts, NoIntent
  DEF DataType, Prune, Prunable, worker, handler
<1>18. ASSUME NEW i \in Intent, Merge(i)  PROVE DataType'
  BY <1>18, <1>a, <1>b, IntentParts, NoIntent
  DEF DataType, Merge, Latest, worker, handler
<1>19. ASSUME Stop  PROVE DataType'
  BY <1>19, <1>a, <1>b, IntentParts, NoIntent
  DEF DataType, Stop, tables, worker, handler
<1>20. ASSUME Exit  PROVE DataType'
  BY <1>20, <1>a, <1>b, IntentParts, NoIntent DEF DataType, Exit, Gone, Idle
<1>21. ASSUME Crash  PROVE DataType'
  <2>1. answer' \in [Export -> {"none", "ok", "deriving", "refused"}]
    BY <1>21, <1>a DEF Crash, Gone, DataType
  <2>2. crashes' \in Nat
    BY <1>21, <1>a DEF Crash, DataType
  <2> QED BY <1>21, <1>a, <2>1, <2>2 DEF DataType, Crash, Gone, Idle
<1>22. ASSUME Start  PROVE DataType'
  BY <1>22, <1>a, <1>b, IntentParts, NoIntent
  DEF DataType, Start, tables, worker, handler
<1>23. CASE UNCHANGED vars
  BY <1>23, <1>a, <1>b, IntentParts, NoIntent
  DEF DataType, vars, tables, worker, handler
<1> QED
  BY <1>1, <1>2, <1>3, <1>4, <1>5, <1>6, <1>7, <1>8, <1>9, <1>10, <1>11, <1>12, <1>13,
     <1>14, <1>15, <1>16, <1>17, <1>18, <1>19, <1>20, <1>21, <1>22, <1>23
  DEF Next, Progress, Handle

(* The shape of a pass.                                                    *)
LEMMA PassStep == OutboxInv /\ [Next]_vars => PassShape'
<1> SUFFICES ASSUME OutboxInv, [Next]_vars  PROVE PassShape'
  OBVIOUS
<1>a. /\ DataType /\ PassShape
      /\ Taking => Taken \in Intent
  BY TakenType DEF OutboxInv
<1>b. Export \cap {"idle", "due"} = {} /\ Seed \subseteq Export
  BY OutboxAssumption
<1>1. ASSUME NEW e \in Export, Ingest(e)  PROVE PassShape'
  BY <1>1, <1>a, <1>b, IntentParts, NoIntent
  DEF DataType, PassShape, Taking, Taken, Free, Ingest, tables, worker, handler
<1>2. ASSUME NEW e \in Export, IngestFails(e)  PROVE PassShape'
  BY <1>2, <1>a, <1>b, IntentParts, NoIntent
  DEF DataType, PassShape, Taking, Taken, Free, IngestFails, worker, handler
<1>3. ASSUME NEW e \in Export, ProcessIDs(e)  PROVE PassShape'
  BY <1>3, <1>a, <1>b, IntentParts, NoIntent
  DEF DataType, PassShape, Taking, Taken, Free, ProcessIDs, tables, handler
<1>4. ASSUME ProcessDue  PROVE PassShape'
  BY <1>4, <1>a, <1>b, IntentParts, NoIntent
  DEF DataType, PassShape, Taking, Taken, Free, ProcessDue, tables, handler
<1>5. ASSUME PassEnds  PROVE PassShape'
  BY <1>5, <1>a, <1>b, IntentParts, NoIntent
  DEF DataType, PassShape, Taking, Taken, Free, PassEnds, Idle, Returned, Cancelled
<1>6. ASSUME NEW i \in Intent, Take(i)  PROVE PassShape'
  BY <1>6, <1>a, <1>b, IntentParts, NoIntent
  DEF DataType, PassShape, Taking, Taken, Free, Take, tables
<1>7. ASSUME NEW i \in Intent, Missing(i)  PROVE PassShape'
  BY <1>7, <1>a, <1>b, IntentParts, NoIntent
  DEF DataType, PassShape, Taking, Taken, Free, Missing, tables, handler
<1>8. ASSUME NEW w \in Item, SkipMarked(w)  PROVE PassShape'
  BY <1>8, <1>a, <1>b, IntentParts, NoIntent
  DEF DataType, PassShape, Taking, Taken, Free, SkipMarked, AtItem, tables
<1>9. ASSUME NEW w \in Item, WriteItem(w)  PROVE PassShape'
  BY <1>9, <1>a, <1>b, IntentParts, NoIntent
  DEF DataType, PassShape, Taking, Taken, Free, WriteItem, AtItem
<1>10. ASSUME NEW w \in Item, WriteItemFails(w)  PROVE PassShape'
  BY <1>10, <1>a, <1>b, IntentParts, NoIntent
  DEF DataType, PassShape, Taking, Taken, Free, WriteItemFails, AtItem, AfterFailure
<1>11. ASSUME MarkItem  PROVE PassShape'
  BY <1>11, <1>a, <1>b, IntentParts, NoIntent
  DEF DataType, PassShape, Taking, Taken, Free, MarkItem
<1>12. ASSUME MarkItemFails  PROVE PassShape'
  BY <1>12, <1>a, <1>b, IntentParts, NoIntent
  DEF DataType, PassShape, Taking, Taken, Free, MarkItemFails
<1>13. ASSUME MarkProcessed  PROVE PassShape'
  BY <1>13, <1>a, <1>b, IntentParts, NoIntent
  DEF DataType, PassShape, Taking, Taken, Free, MarkProcessed, Disposed, Derived
<1>14. ASSUME MarkAttempt  PROVE PassShape'
  BY <1>14, <1>a, <1>b, IntentParts, NoIntent
  DEF DataType, PassShape, Taking, Taken, Free, MarkAttempt, Disposed
<1>15. ASSUME DispositionFails  PROVE PassShape'
  BY <1>15, <1>a, <1>b, IntentParts, NoIntent
  DEF DataType, PassShape, Taking, Taken, Free, DispositionFails, Idle, Returned,
      Derived
<1>16. ASSUME NEW i \in Intent, BackoffEnds(i)  PROVE PassShape'
  BY <1>16, <1>a, <1>b, IntentParts, NoIntent
  DEF DataType, PassShape, Taking, Taken, Free, BackoffEnds, worker, handler
<1>17. ASSUME NEW i \in Intent, Prune(i)  PROVE PassShape'
  BY <1>17, <1>a, <1>b, IntentParts, NoIntent
  DEF DataType, PassShape, Taking, Taken, Free, Prune, worker, handler
<1>18. ASSUME NEW i \in Intent, Merge(i)  PROVE PassShape'
  BY <1>18, <1>a, <1>b, IntentParts, NoIntent
  DEF DataType, PassShape, Taking, Taken, Free, Merge, worker, handler
<1>19. ASSUME Stop  PROVE PassShape'
  BY <1>19, <1>a, <1>b, IntentParts, NoIntent
  DEF DataType, PassShape, Taking, Taken, Free, Stop, tables, worker, handler
<1>20. ASSUME Exit  PROVE PassShape'
  BY <1>20, <1>a, <1>b, IntentParts, NoIntent
  DEF DataType, PassShape, Taking, Taken, Free, Exit, Gone, Idle
<1>21. ASSUME Crash  PROVE PassShape'
  BY <1>21, <1>a, <1>b, IntentParts, NoIntent
  DEF DataType, PassShape, Taking, Taken, Free, Crash, Gone, Idle
<1>22. ASSUME Start  PROVE PassShape'
  BY <1>22, <1>a, <1>b, IntentParts, NoIntent
  DEF DataType, PassShape, Taking, Taken, Free, Start, tables, worker, handler
<1>23. CASE UNCHANGED vars
  BY <1>23, <1>a, <1>b, IntentParts, NoIntent
  DEF DataType, PassShape, Taking, Taken, Free, vars, tables, worker, handler
<1> QED
  BY <1>1, <1>2, <1>3, <1>4, <1>5, <1>6, <1>7, <1>8, <1>9, <1>10, <1>11, <1>12, <1>13,
     <1>14, <1>15, <1>16, <1>17, <1>18, <1>19, <1>20, <1>21, <1>22, <1>23
  DEF Next, Progress, Handle

(* A disposition is the newest row of its intent: no two have one version. *)
LEMMA PutIsNewest ==
  ASSUME DataType, VersionsAdvance, Taking, NEW r \in Row,
         r.version > current.row.version, Put(r)
  PROVE  /\ \A i \in Intent : \A x, y \in rows'[i] : x.version = y.version => x = y
         /\ \A s \in rows[Taken] : s.version < r.version
         /\ \A s \in rows'[Taken] : s.version =< r.version
<1>1. /\ rows'[Taken] = rows[Taken] \cup {r}
      /\ \A i \in Intent : i # Taken => rows'[i] = rows[i]
      /\ Taken \in Intent /\ current.row \in Row
  BY Puts, TakenType
<1>2. \A s \in rows[Taken] : s.version \in Nat /\ s.version =< current.row.version
  BY <1>1 DEF DataType, Row, VersionsAdvance
<1>3. \A s \in rows[Taken] : s.version < r.version
  BY <1>1, <1>2 DEF Row
<1>4. r.version \in Nat
  BY DEF Row
<1> QED BY <1>1, <1>2, <1>3, <1>4 DEF VersionsAdvance

(* Both dispositions advance the version.                                  *)
LEMMA Dispositions ==
  ASSUME DataType, Taking,
         \/ \E now \in Now : Put(ProcessedRow(now))
         \/ \E now \in Now : Put(FailedRow(now))
  PROVE  \E r \in Row : r.version > current.row.version /\ Put(r)
  BY RowsPut

(* Versions stay distinct, and the row taken stays the newest.             *)
LEMMA VersionStep == OutboxInv /\ [Next]_vars => VersionsAdvance'
<1> SUFFICES ASSUME OutboxInv, [Next]_vars  PROVE VersionsAdvance'
  OBVIOUS
<1>a. /\ DataType /\ PassShape /\ VersionsAdvance
      /\ Taking => Taken \in Intent /\ current.row \in Row
  BY TakenType DEF OutboxInv
<1>b. failed => Taking
  BY <1>a DEF PassShape
<1>c. DataType'
  BY TypeStep
<1>1. ASSUME NEW e \in Export, Ingest(e)  PROVE VersionsAdvance'
  <2>1. PICK now \in Now : Enqueued(e, now)
    BY <1>1 DEF Ingest
  <2>2. \A i \in Intent : rows'[i] = IF i[1] = e THEN rows[i] \cup {Fresh(now)} ELSE rows[i]
    BY <2>1 DEF Enqueued
  <2>3. /\ answer[e] = "none" /\ answer'[e] # "none"
        /\ \A x \in Export : x # e => answer'[x] = answer[x]
    BY <1>1, <1>a DEF Ingest, DataType
  <2>4. \A i \in Intent : i[1] = e => rows'[i] = {Fresh(now)}
    BY <2>2, <2>3, <1>a DEF VersionsAdvance
  <2>5. Taking => Taken[1] # e
    BY <2>3, <1>a DEF VersionsAdvance
  <2>6. UNCHANGED <<current, pass>>
    BY <1>1 DEF Ingest, worker, handler
  <2>7. Taking' => Taking /\ Taken' = Taken /\ current' = current /\ rows'[Taken] = rows[Taken]
    BY <2>2, <2>5, <2>6, <1>a DEF Taking, Taken
  <2>8. \A i \in Intent : i[1] # e => rows'[i] = rows[i] /\ answer'[i[1]] = answer[i[1]]
    BY <2>2, <2>3, IntentParts
  <2>9. \A i \in Intent : answer'[i[1]] = "none" => rows'[i] = {}
    BY <2>3, <2>8, <1>a DEF VersionsAdvance
  <2>10. \A i \in Intent : \A r, s \in rows'[i] : r.version = s.version => r = s
    BY <2>4, <2>8, <1>a DEF VersionsAdvance
  <2>11. Taking' => answer'[Taken[1]] # "none"
    BY <2>5, <2>7, <2>8, <1>a DEF VersionsAdvance
  <2> QED BY <2>7, <2>9, <2>10, <2>11, <1>a DEF VersionsAdvance
<1>2. ASSUME NEW e \in Export, IngestFails(e)  PROVE VersionsAdvance'
  BY <1>2, <1>a, <1>b, <1>c, IntentParts, NoIntent
  DEF DataType, VersionsAdvance, Taking, Taken, Free, IngestFails, worker, handler
<1>3. ASSUME NEW e \in Export, ProcessIDs(e)  PROVE VersionsAdvance'
  BY <1>3, <1>a, <1>b, <1>c, IntentParts, NoIntent
  DEF DataType, VersionsAdvance, Taking, Taken, Free, ProcessIDs, tables, handler
<1>4. ASSUME ProcessDue  PROVE VersionsAdvance'
  BY <1>4, <1>a, <1>b, <1>c, IntentParts, NoIntent
  DEF DataType, VersionsAdvance, Taking, Taken, Free, ProcessDue, tables, handler
<1>5. ASSUME PassEnds  PROVE VersionsAdvance'
  BY <1>5, <1>a, <1>b, <1>c, IntentParts, NoIntent
  DEF DataType, VersionsAdvance, Taking, Taken, Free, PassEnds, Idle, Returned,
      Cancelled
<1>6. ASSUME NEW i \in Intent, Take(i)  PROVE VersionsAdvance'
  <2>1. PICK r \in Latest(i) : current' = [intent |-> i, row |-> r]
    BY <1>6 DEF Take
  <2>2. answer[i[1]] # "none"
    BY <2>1, <1>a DEF Latest, VersionsAdvance
  <2> QED BY <1>6, <1>a, <2>1, <2>2 DEF VersionsAdvance, Take, tables, Latest, Taken
<1>7. ASSUME NEW i \in Intent, Missing(i)  PROVE VersionsAdvance'
  BY <1>7, <1>a, <1>b, <1>c, IntentParts, NoIntent
  DEF DataType, VersionsAdvance, Taking, Taken, Free, Missing, tables, handler
<1>8. ASSUME NEW w \in Item, SkipMarked(w)  PROVE VersionsAdvance'
  BY <1>8, <1>a, <1>b, <1>c, IntentParts, NoIntent
  DEF DataType, VersionsAdvance, Taking, Taken, Free, SkipMarked, AtItem, tables
<1>9. ASSUME NEW w \in Item, WriteItem(w)  PROVE VersionsAdvance'
  BY <1>9, <1>a, <1>b, <1>c, IntentParts, NoIntent
  DEF DataType, VersionsAdvance, Taking, Taken, Free, WriteItem, AtItem
<1>10. ASSUME NEW w \in Item, WriteItemFails(w)  PROVE VersionsAdvance'
  BY <1>10, <1>a, <1>b, <1>c, IntentParts, NoIntent
  DEF DataType, VersionsAdvance, Taking, Taken, Free, WriteItemFails, AtItem,
      AfterFailure
<1>11. ASSUME MarkItem  PROVE VersionsAdvance'
  BY <1>11, <1>a, <1>b, <1>c, IntentParts, NoIntent
  DEF DataType, VersionsAdvance, Taking, Taken, Free, MarkItem
<1>12. ASSUME MarkItemFails  PROVE VersionsAdvance'
  BY <1>12, <1>a, <1>b, <1>c, IntentParts, NoIntent
  DEF DataType, VersionsAdvance, Taking, Taken, Free, MarkItemFails
<1>13. ASSUME MarkProcessed  PROVE VersionsAdvance'
  <2>1. rows' = rows \/ \E r \in Row : r.version > current.row.version /\ Put(r)
    BY <1>13, <1>a, <1>b, Dispositions DEF MarkProcessed, Derived, Taking
  <2>2. \A i \in Intent : \A r, s \in rows'[i] : r.version = s.version => r = s
    BY <2>1, <1>a, <1>b, <1>13, PutIsNewest
    DEF MarkProcessed, Derived, Taking, VersionsAdvance
  <2>3. ~Taking'
    BY <1>13 DEF MarkProcessed, Disposed, Free, Taking
  <2>4. \A i \in Intent : answer'[i[1]] = "none" => answer[i[1]] = "none" /\ i # Taken
    BY <1>13, <1>a, <1>b, IntentParts
    DEF MarkProcessed, Derived, Taking, VersionsAdvance, DataType
  <2>5. \A i \in Intent : i # Taken => rows'[i] = rows[i]
    BY <2>1, <1>a, <1>b, <1>13, Puts DEF MarkProcessed, Derived, Taking
  <2> QED BY <2>2, <2>3, <2>4, <2>5, <1>a DEF VersionsAdvance
<1>14. ASSUME MarkAttempt  PROVE VersionsAdvance'
  <2>1. rows' = rows \/ \E r \in Row : r.version > current.row.version /\ Put(r)
    BY <1>14, <1>a, <1>b, Dispositions DEF MarkAttempt, PutFailed
  <2>2. \A i \in Intent : \A r, s \in rows'[i] : r.version = s.version => r = s
    BY <2>1, <1>a, <1>b, <1>14, PutIsNewest DEF MarkAttempt, VersionsAdvance
  <2>3. ~Taking'
    BY <1>14 DEF MarkAttempt, Disposed, Free, Taking
  <2>4. \A i \in Intent : answer'[i[1]] = "none" => answer[i[1]] = "none" /\ i # Taken
    BY <1>14, <1>a, <1>b, IntentParts DEF MarkAttempt, VersionsAdvance, DataType
  <2>5. \A i \in Intent : i # Taken => rows'[i] = rows[i]
    BY <2>1, <1>a, <1>b, <1>14, Puts DEF MarkAttempt
  <2> QED BY <2>2, <2>3, <2>4, <2>5, <1>a DEF VersionsAdvance
<1>15. ASSUME DispositionFails  PROVE VersionsAdvance'
  <2>1. rows' = rows \/ \E r \in Row : r.version > current.row.version /\ Put(r)
    BY <1>15, <1>a, <1>b, Dispositions
    DEF DispositionFails, PutFailed, Derived, Taking
  <2>2. \A i \in Intent : \A r, s \in rows'[i] : r.version = s.version => r = s
    BY <2>1, <1>a, <1>b, <1>15, PutIsNewest
    DEF DispositionFails, Derived, Taking, VersionsAdvance
  <2>3. ~Taking'
    BY <1>15 DEF DispositionFails, Returned, Idle, Free, Taking
  <2>4. \A i \in Intent : answer'[i[1]] = "none" => answer[i[1]] = "none" /\ i # Taken
    BY <1>15, <1>a, <1>b, IntentParts
    DEF DispositionFails, Returned, Derived, Taking, VersionsAdvance, DataType
  <2>5. \A i \in Intent : i # Taken => rows'[i] = rows[i]
    BY <2>1, <1>a, <1>b, <1>15, Puts DEF DispositionFails, Derived, Taking
  <2> QED BY <2>2, <2>3, <2>4, <2>5, <1>a DEF VersionsAdvance
<1>16. ASSUME NEW i \in Intent, BackoffEnds(i)  PROVE VersionsAdvance'
  BY <1>16, <1>a, <1>b, <1>c, IntentParts, NoIntent
  DEF DataType, VersionsAdvance, Taking, Taken, Free, BackoffEnds, worker, handler
<1>17. ASSUME NEW i \in Intent, Prune(i)  PROVE VersionsAdvance'
  BY <1>17, <1>a, <1>b, <1>c, IntentParts, NoIntent
  DEF DataType, VersionsAdvance, Taking, Taken, Free, Prune, Prunable, worker, handler
<1>18. ASSUME NEW i \in Intent, Merge(i)  PROVE VersionsAdvance'
  BY <1>18, <1>a, <1>b, <1>c, IntentParts, NoIntent
  DEF DataType, VersionsAdvance, Taking, Taken, Free, Merge, Latest, worker, handler
<1>19. ASSUME Stop  PROVE VersionsAdvance'
  BY <1>19, <1>a, <1>b, <1>c, IntentParts, NoIntent
  DEF DataType, VersionsAdvance, Taking, Taken, Free, Stop, tables, worker, handler
<1>20. ASSUME Exit  PROVE VersionsAdvance'
  BY <1>20, <1>a, <1>b, <1>c, IntentParts, NoIntent
  DEF DataType, VersionsAdvance, Taking, Taken, Free, Exit, Gone, Idle
<1>21. ASSUME Crash  PROVE VersionsAdvance'
  BY <1>21, <1>a, <1>b, <1>c, IntentParts, NoIntent
  DEF DataType, VersionsAdvance, Taking, Taken, Free, Crash, Gone, Idle
<1>22. ASSUME Start  PROVE VersionsAdvance'
  BY <1>22, <1>a, <1>b, <1>c, IntentParts, NoIntent
  DEF DataType, VersionsAdvance, Taking, Taken, Free, Start, tables, worker, handler
<1>23. CASE UNCHANGED vars
  BY <1>23, <1>a, <1>b, <1>c, IntentParts, NoIntent
  DEF DataType, VersionsAdvance, Taking, Taken, Free, vars, tables, worker, handler
<1> QED
  BY <1>1, <1>2, <1>3, <1>4, <1>5, <1>6, <1>7, <1>8, <1>9, <1>10, <1>11, <1>12, <1>13,
     <1>14, <1>15, <1>16, <1>17, <1>18, <1>19, <1>20, <1>21, <1>22, <1>23
  DEF Next, Progress, Handle

(* The collapse of an intent has one row at most.                          *)
LEMMA LatestIsUnique ==
  ASSUME DataType, VersionsAdvance, NEW i \in Intent
  PROVE  /\ Latest(i) \subseteq rows[i]
         /\ \A r, s \in Latest(i) : r = s
         /\ \A r \in Latest(i), s \in rows[i] : s.version =< r.version
<1>1. \A r \in rows[i] : r.version \in Nat
  BY DEF DataType, Row
<1>2. \A r, s \in Latest(i) : r.version =< s.version /\ s.version =< r.version
  BY DEF Latest
<1>3. \A r, s \in Latest(i) : r.version = s.version
  BY <1>1, <1>2 DEF Latest
<1> QED BY <1>3 DEF Latest, VersionsAdvance

(* Rows of an intent that go leave the newest one that stays.              *)
LEMMA LatestKept ==
  ASSUME NEW i \in Intent, NEW r \in Latest(i), rows'[i] \subseteq rows[i], r \in rows'[i]
  PROVE  r \in Latest(i)'
  BY DEF Latest

(* The retention removes processed rows, a merge superseded ones.          *)
LEMMA Removals ==
  ASSUME DataType, VersionsAdvance, NEW i \in Intent, Prune(i) \/ Merge(i)
  PROVE  /\ \A j \in Intent : rows'[j] \subseteq rows[j]
         /\ \A j \in Intent : \A r \in Latest(j) : r \in rows'[j] \/ r.processed
         /\ \A j \in Intent : \A r \in rows[j] :
              r \in rows'[j] \/ r.processed \/ r \notin Latest(j)
<1>1. \A j \in Intent : j # i => rows'[j] = rows[j]
  BY DEF Prune, Merge, DataType
<1>2. CASE Prune(i)
  <2>1. PICK r \in Prunable(i) :
          rows'[i] = rows[i] \ {s \in Prunable(i) : s.version =< r.version}
    BY <1>2 DEF Prune, DataType
  <2> QED BY <1>1, <2>1 DEF Prunable, Latest
<1>3. CASE Merge(i)
  <2>1. PICK r \in Latest(i) : rows'[i] = {r}
    BY <1>3 DEF Merge, DataType
  <2> QED BY <1>1, <2>1, LatestIsUnique DEF Latest
<1> QED BY <1>2, <1>3

(* A pass over what is due keeps holding unsettled intents.                *)
LEMMA DueStep == OutboxInv /\ [Next]_vars => DueOpen'
<1> SUFFICES ASSUME OutboxInv, [Next]_vars  PROVE DueOpen'
  OBVIOUS
<1>a. /\ DataType /\ PassShape /\ VersionsAdvance /\ DueOpen
      /\ Taking => Taken \in Intent /\ current.row \in Row
      /\ Export \cap {"idle", "due"} = {}
  BY TakenType, OutboxAssumption DEF OutboxInv
<1>b. failed => Taking
  BY <1>a DEF PassShape
<1>1. ASSUME NEW e \in Export, Ingest(e)  PROVE DueOpen'
  <2>1. PICK now \in Now : Enqueued(e, now)
    BY <1>1 DEF Ingest
  <2>2. /\ \A i \in Intent : rows[i] # {} => rows'[i] = rows[i]
        /\ Taking => rows'[Taken] = rows[Taken]
    BY <1>1, <2>1, <1>a DEF Ingest, Enqueued, VersionsAdvance
  <2>3. UNCHANGED <<batch, current, pass, budget>>
    BY <1>1 DEF Ingest, worker, handler
  <2>4. \A i \in batch : i \in Intent /\ (pass = "due" => rows[i] # {})
    BY <1>a DEF DueOpen, Latest, DataType
  <2> QED BY <2>2, <2>3, <2>4, <1>a DEF DueOpen, Open, Latest, Taking, Taken
<1>2. ASSUME NEW e \in Export, IngestFails(e)  PROVE DueOpen'
  BY <1>2, <1>a, <1>b, NoIntent
  DEF DueOpen, PassShape, Open, Latest, Taking, Taken, Free, IngestFails, worker,
      handler
<1>3. ASSUME NEW e \in Export, ProcessIDs(e)  PROVE DueOpen'
  BY <1>3, <1>a, <1>b, NoIntent
  DEF DueOpen, PassShape, Open, Latest, Taking, Taken, Free, ProcessIDs, tables,
      handler
<1>4. ASSUME ProcessDue  PROVE DueOpen'
  BY <1>4, <1>a, <1>b, NoIntent
  DEF DueOpen, PassShape, Open, Latest, Taking, Taken, Free, ProcessDue, Due, tables,
      handler
<1>5. ASSUME PassEnds  PROVE DueOpen'
  BY <1>5, <1>a, <1>b, NoIntent
  DEF DueOpen, PassShape, Open, Latest, Taking, Taken, Free, PassEnds, Idle, Returned,
      Cancelled
<1>6. ASSUME NEW i \in Intent, Take(i)  PROVE DueOpen'
  <2>1. PICK r \in Latest(i) : current' = [intent |-> i, row |-> r]
    BY <1>6 DEF Take
  <2>2. /\ UNCHANGED <<pass, budget, rows>> /\ batch' \subseteq batch /\ i \in batch
    BY <1>6 DEF Take, tables
  <2>3. pass = "due" => r \in rows[i] /\ Open(r)
    BY <2>1, <2>2, <1>a, LatestIsUnique DEF DueOpen
  <2>4. Taken' = i /\ current'.row = r
    BY <2>1 DEF Taken
  <2> QED BY <2>2, <2>3, <2>4, <1>a DEF DueOpen, Open, Latest
<1>7. ASSUME NEW i \in Intent, Missing(i)  PROVE DueOpen'
  BY <1>7, <1>a, <1>b, NoIntent
  DEF DueOpen, PassShape, Open, Latest, Taking, Taken, Free, Missing, tables, handler
<1>8. ASSUME NEW w \in Item, SkipMarked(w)  PROVE DueOpen'
  BY <1>8, <1>a, <1>b, NoIntent
  DEF DueOpen, PassShape, Open, Latest, Taking, Taken, Free, SkipMarked, AtItem,
      tables
<1>9. ASSUME NEW w \in Item, WriteItem(w)  PROVE DueOpen'
  BY <1>9, <1>a, <1>b, NoIntent
  DEF DueOpen, PassShape, Open, Latest, Taking, Taken, Free, WriteItem, AtItem
<1>10. ASSUME NEW w \in Item, WriteItemFails(w)  PROVE DueOpen'
  BY <1>10, <1>a, <1>b, NoIntent
  DEF DueOpen, PassShape, Open, Latest, Taking, Taken, Free, WriteItemFails, AtItem,
      AfterFailure
<1>11. ASSUME MarkItem  PROVE DueOpen'
  BY <1>11, <1>a, <1>b, NoIntent
  DEF DueOpen, PassShape, Open, Latest, Taking, Taken, Free, MarkItem
<1>12. ASSUME MarkItemFails  PROVE DueOpen'
  BY <1>12, <1>a, <1>b, NoIntent
  DEF DueOpen, PassShape, Open, Latest, Taking, Taken, Free, MarkItemFails
<1>13. ASSUME MarkProcessed  PROVE DueOpen'
  <2>1. ~Taking' /\ batch' = batch \ {} /\ UNCHANGED <<pass, budget>>
    BY <1>13 DEF MarkProcessed, Disposed, Taking
  <2>2. \A i \in batch : i \in Intent /\ rows'[i] = rows[i]
    BY <1>13, <1>a DEF MarkProcessed, Derived, Taking, Put, PassShape, DataType
  <2> QED BY <2>1, <2>2, <1>a DEF DueOpen, Open, Latest
<1>14. ASSUME MarkAttempt  PROVE DueOpen'
  <2>1. ~Taking' /\ batch' = batch \ {} /\ UNCHANGED <<pass, budget>>
    BY <1>14 DEF MarkAttempt, Disposed, Taking
  <2>2. \A i \in batch : i \in Intent /\ rows'[i] = rows[i]
    BY <1>14, <1>a DEF MarkAttempt, PutFailed, Put, PassShape, DataType
  <2> QED BY <2>1, <2>2, <1>a DEF DueOpen, Open, Latest
<1>15. ASSUME DispositionFails  PROVE DueOpen'
  BY <1>15, <1>a, <1>b, NoIntent
  DEF DueOpen, PassShape, Open, Latest, Taking, Taken, Free, DispositionFails, Idle,
      Returned, Derived
<1>16. ASSUME NEW i \in Intent, BackoffEnds(i)  PROVE DueOpen'
  BY <1>16, <1>a, <1>b, NoIntent
  DEF DueOpen, PassShape, Open, Latest, Taking, Taken, Free, BackoffEnds, worker,
      handler
<1>17. ASSUME NEW i \in Intent, Prune(i)  PROVE DueOpen'
  <2>1. /\ \A j \in Intent : rows'[j] \subseteq rows[j]
        /\ \A j \in Intent : \A r \in Latest(j) : r \in rows'[j] \/ r.processed
    BY <1>17, <1>a, Removals
  <2>2. UNCHANGED <<batch, current, pass, budget>>
    BY <1>17 DEF Prune, worker, handler
  <2>3. \A j \in Intent : \A r \in Latest(j) : ~r.processed => r \in Latest(j)'
    BY <2>1, LatestKept
  <2>4. CASE pass = "due" /\ Taking
    <3>1. current.row \in Latest(Taken)
      BY <2>4, <1>a DEF DueOpen, VersionsAdvance, Latest
    <3> QED
      BY <3>1, <2>1, <2>2, <2>3, <2>4, <1>a
      DEF DueOpen, Open, Taking, Taken, DataType
  <2> QED BY <2>2, <2>3, <2>4, <1>a DEF DueOpen, Open, Taking, Taken, DataType
<1>18. ASSUME NEW i \in Intent, Merge(i)  PROVE DueOpen'
  <2>1. /\ \A j \in Intent : rows'[j] \subseteq rows[j]
        /\ \A j \in Intent : \A r \in Latest(j) : r \in rows'[j] \/ r.processed
    BY <1>18, <1>a, Removals
  <2>2. UNCHANGED <<batch, current, pass, budget>>
    BY <1>18 DEF Merge, worker, handler
  <2>3. \A j \in Intent : \A r \in Latest(j) : ~r.processed => r \in Latest(j)'
    BY <2>1, LatestKept
  <2>4. CASE pass = "due" /\ Taking
    <3>1. current.row \in Latest(Taken)
      BY <2>4, <1>a DEF DueOpen, VersionsAdvance, Latest
    <3> QED
      BY <3>1, <2>1, <2>2, <2>3, <2>4, <1>a
      DEF DueOpen, Open, Taking, Taken, DataType
  <2> QED BY <2>2, <2>3, <2>4, <1>a DEF DueOpen, Open, Taking, Taken, DataType
<1>19. ASSUME Stop  PROVE DueOpen'
  BY <1>19, <1>a, <1>b, NoIntent
  DEF DueOpen, PassShape, Open, Latest, Taking, Taken, Free, Stop, tables, worker,
      handler
<1>20. ASSUME Exit  PROVE DueOpen'
  BY <1>20, <1>a, <1>b, NoIntent
  DEF DueOpen, PassShape, Open, Latest, Taking, Taken, Free, Exit, Gone, Idle, Free
<1>21. ASSUME Crash  PROVE DueOpen'
  BY <1>21, <1>a, <1>b, NoIntent
  DEF DueOpen, PassShape, Open, Latest, Taking, Taken, Free, Crash, Gone, Idle, Free
<1>22. ASSUME Start  PROVE DueOpen'
  BY <1>22, <1>a, <1>b, NoIntent
  DEF DueOpen, PassShape, Open, Latest, Taking, Taken, Free, Start, tables, worker,
      handler
<1>23. CASE UNCHANGED vars
  BY <1>23, <1>a, <1>b, NoIntent
  DEF DueOpen, PassShape, Open, Latest, Taking, Taken, Free, vars, tables, worker,
      handler
<1> QED
  BY <1>1, <1>2, <1>3, <1>4, <1>5, <1>6, <1>7, <1>8, <1>9, <1>10, <1>11, <1>12, <1>13,
     <1>14, <1>15, <1>16, <1>17, <1>18, <1>19, <1>20, <1>21, <1>22, <1>23
  DEF Next, Progress, Handle

(* What is skipped or processed has been written.                          *)
LEMMA WorkStep == OutboxInv /\ [Next]_vars => WorkDone'
<1> SUFFICES ASSUME OutboxInv, [Next]_vars  PROVE WorkDone'
  OBVIOUS
<1>a. /\ DataType /\ PassShape /\ VersionsAdvance /\ WorkDone
      /\ Taking => Taken \in Intent /\ current.row \in Row
  BY TakenType DEF OutboxInv
<1>b. /\ unmarked # None => Taking /\ unmarked \in todo
      /\ todo # {} => Taking
      /\ failed => Taking
  BY <1>a DEF PassShape, DataType
<1>1. ASSUME NEW e \in Export, Ingest(e)  PROVE WorkDone'
  <2>1. PICK now \in Now : Enqueued(e, now)
    BY <1>1 DEF Ingest
  <2>2. \A i \in Intent : \A r \in rows'[i] : r \in rows[i] \/ ~r.processed
    BY <2>1 DEF Enqueued, Fresh
  <2> QED
    BY <1>1, <2>2, <1>a
    DEF WorkDone, Complete, Ingest, worker, handler, Taking, Taken
<1>2. ASSUME NEW e \in Export, IngestFails(e)  PROVE WorkDone'
  BY <1>2, <1>a, <1>b
  DEF WorkDone, Complete, PassShape, Taking, Taken, Free, IngestFails, worker, handler
<1>3. ASSUME NEW e \in Export, ProcessIDs(e)  PROVE WorkDone'
  BY <1>3, <1>a, <1>b
  DEF WorkDone, Complete, PassShape, Taking, Taken, Free, ProcessIDs, tables, handler
<1>4. ASSUME ProcessDue  PROVE WorkDone'
  BY <1>4, <1>a, <1>b
  DEF WorkDone, Complete, PassShape, Taking, Taken, Free, ProcessDue, tables, handler
<1>5. ASSUME PassEnds  PROVE WorkDone'
  BY <1>5, <1>a, <1>b
  DEF WorkDone, Complete, PassShape, Taking, Taken, Free, PassEnds, Idle, Returned,
      Cancelled
<1>6. ASSUME NEW i \in Intent, Take(i)  PROVE WorkDone'
  BY <1>6, <1>a, <1>b
  DEF WorkDone, Complete, PassShape, Taking, Taken, Free, Take, Latest, tables
<1>7. ASSUME NEW i \in Intent, Missing(i)  PROVE WorkDone'
  BY <1>7, <1>a, <1>b
  DEF WorkDone, Complete, PassShape, Taking, Taken, Free, Missing, tables, handler
<1>8. ASSUME NEW w \in Item, SkipMarked(w)  PROVE WorkDone'
  <2>1. Taking /\ written[Taken][w] > 0 /\ unmarked = None
    BY <1>8, <1>a, <1>b DEF SkipMarked, AtItem, IsMarked, WorkDone
  <2> QED
    BY <1>8, <2>1, <1>a
    DEF WorkDone, SkipMarked, tables, Taking, Taken, Complete
<1>9. ASSUME NEW w \in Item, WriteItem(w)  PROVE WorkDone'
  <2>1. w \in Item /\ Taking
    BY <1>9, <1>a, <1>b DEF WriteItem, AtItem
  <2>2. written' = written \/ AddOne(w)
    BY <1>9 DEF WriteItem
  <2>3. /\ \A i \in Intent : \A x \in Item : written[i][x] > 0 => written'[i][x] > 0
        /\ AddOne(w) => written'[Taken][w] > 0
    BY <2>1, <2>2, <1>a, Adds DEF DataType
  <2>4. \A i \in Intent : Complete(i) => Complete(i)'
    BY <2>3, IntentParts DEF Complete
  <2>5. /\ UNCHANGED <<current, rows, marked>> /\ written'[Taken][w] > 0
        /\ todo \ {w} \subseteq todo' /\ unmarked' \in {None, w}
    BY <1>9, <2>3 DEF WriteItem, AtItem
  <2> QED BY <2>1, <2>3, <2>4, <2>5, <1>a, IntentParts DEF WorkDone, Taking, Taken
<1>10. ASSUME NEW w \in Item, WriteItemFails(w)  PROVE WorkDone'
  <2>1. w \in Item /\ Taking
    BY <1>10, <1>a, <1>b DEF WriteItemFails, AtItem
  <2>2. written' = written \/ AddOne(w)
    BY <1>10 DEF WriteItemFails
  <2>3. /\ \A i \in Intent : \A x \in Item : written[i][x] > 0 => written'[i][x] > 0
        /\ AddOne(w) => written'[Taken][w] > 0
    BY <2>1, <2>2, <1>a, Adds DEF DataType
  <2>4. \A i \in Intent : Complete(i) => Complete(i)'
    BY <2>3, IntentParts DEF Complete
  <2> QED
    BY <1>10, <2>1, <2>3, <2>4, <1>a, IntentParts, NoIntent
    DEF WorkDone, WriteItemFails, AfterFailure, Taking, Taken, AtItem
<1>11. ASSUME MarkItem  PROVE WorkDone'
  <2>1. Taking /\ written[Taken][unmarked] > 0
    BY <1>11, <1>a, <1>b DEF MarkItem, WorkDone
  <2> QED BY <1>11, <2>1, <1>a DEF WorkDone, MarkItem, Taking, Taken, Complete
<1>12. ASSUME MarkItemFails  PROVE WorkDone'
  <2>1. Taking /\ written[Taken][unmarked] > 0
    BY <1>12, <1>a, <1>b DEF MarkItemFails, WorkDone
  <2> QED BY <1>12, <2>1, <1>a DEF WorkDone, MarkItemFails, Taking, Taken, Complete
<1>13. ASSUME MarkProcessed  PROVE WorkDone'
  <2>1. Taking /\ (Derived => Complete(Taken))
    BY <1>13, <1>a, <1>b DEF MarkProcessed, Derived, WorkDone, Complete, Taking
  <2>2. \/ rows' = rows
        \/ Derived /\ \E r \in Row : Put(r)
        \/ \E r \in Row : ~r.processed /\ Put(r)
    BY <1>13, <2>1, <1>a, RowsPut DEF MarkProcessed
  <2>3. \A i \in Intent : \A r \in rows'[i] : r.processed => Complete(i)
    BY <2>1, <2>2, <1>a, Puts DEF WorkDone
  <2>4. ~Taking' /\ unmarked' = None /\ UNCHANGED <<written, marked>>
    BY <1>13 DEF MarkProcessed, Disposed, Taking
  <2> QED BY <2>3, <2>4, <1>a DEF WorkDone, Complete
<1>14. ASSUME MarkAttempt  PROVE WorkDone'
  <2>1. Taking /\ (Derived => Complete(Taken))
    BY <1>14, <1>a, <1>b DEF MarkAttempt, Derived, WorkDone, Complete, Taking
  <2>2. \/ rows' = rows
        \/ Derived /\ \E r \in Row : Put(r)
        \/ \E r \in Row : ~r.processed /\ Put(r)
    BY <1>14, <2>1, <1>a, RowsPut DEF MarkAttempt, PutFailed
  <2>3. \A i \in Intent : \A r \in rows'[i] : r.processed => Complete(i)
    BY <2>1, <2>2, <1>a, Puts DEF WorkDone
  <2>4. ~Taking' /\ unmarked' = None /\ UNCHANGED <<written, marked>>
    BY <1>14 DEF MarkAttempt, Disposed, Taking
  <2> QED BY <2>3, <2>4, <1>a DEF WorkDone, Complete
<1>15. ASSUME DispositionFails  PROVE WorkDone'
  <2>1. Taking /\ (Derived => Complete(Taken))
    BY <1>15, <1>a, <1>b DEF DispositionFails, Derived, WorkDone, Complete, Taking
  <2>2. \/ rows' = rows
        \/ Derived /\ \E r \in Row : Put(r)
        \/ \E r \in Row : ~r.processed /\ Put(r)
    BY <1>15, <2>1, <1>a, RowsPut DEF DispositionFails, PutFailed
  <2>3. \A i \in Intent : \A r \in rows'[i] : r.processed => Complete(i)
    BY <2>1, <2>2, <1>a, Puts DEF WorkDone
  <2>4. ~Taking' /\ unmarked' = None /\ UNCHANGED <<written, marked>>
    BY <1>15 DEF DispositionFails, Returned, Idle, Taking
  <2> QED BY <2>3, <2>4, <1>a DEF WorkDone, Complete
<1>16. ASSUME NEW i \in Intent, BackoffEnds(i)  PROVE WorkDone'
  BY <1>16, <1>a, <1>b
  DEF WorkDone, Complete, PassShape, Taking, Taken, Free, BackoffEnds, worker, handler
<1>17. ASSUME NEW i \in Intent, Prune(i)  PROVE WorkDone'
  <2>1. \A j \in Intent : rows'[j] \subseteq rows[j]
    BY <1>17, <1>a, Removals
  <2> QED
    BY <1>17, <2>1, <1>a
    DEF WorkDone, Complete, Prune, worker, handler, Taking, Taken
<1>18. ASSUME NEW i \in Intent, Merge(i)  PROVE WorkDone'
  <2>1. \A j \in Intent : rows'[j] \subseteq rows[j]
    BY <1>18, <1>a, Removals
  <2> QED
    BY <1>18, <2>1, <1>a
    DEF WorkDone, Complete, Merge, worker, handler, Taking, Taken
<1>19. ASSUME Stop  PROVE WorkDone'
  BY <1>19, <1>a, <1>b
  DEF WorkDone, Complete, PassShape, Taking, Taken, Free, Stop, tables, worker,
      handler
<1>20. ASSUME Exit  PROVE WorkDone'
  BY <1>20, <1>a, <1>b
  DEF WorkDone, Complete, PassShape, Taking, Taken, Free, Exit, Gone, Idle, Free
<1>21. ASSUME Crash  PROVE WorkDone'
  BY <1>21, <1>a, <1>b
  DEF WorkDone, Complete, PassShape, Taking, Taken, Free, Crash, Gone, Idle, Free
<1>22. ASSUME Start  PROVE WorkDone'
  BY <1>22, <1>a, <1>b
  DEF WorkDone, Complete, PassShape, Taking, Taken, Free, Start, tables, worker,
      handler
<1>23. CASE UNCHANGED vars
  BY <1>23, <1>a, <1>b
  DEF WorkDone, Complete, PassShape, Taking, Taken, Free, vars, tables, worker,
      handler
<1> QED
  BY <1>1, <1>2, <1>3, <1>4, <1>5, <1>6, <1>7, <1>8, <1>9, <1>10, <1>11, <1>12, <1>13,
     <1>14, <1>15, <1>16, <1>17, <1>18, <1>19, <1>20, <1>21, <1>22, <1>23
  DEF Next, Progress, Handle

(* An intent that owes work keeps a newest row.                            *)
LEMMA OwedStep == OutboxInv /\ [Next]_vars => Owed'
<1> SUFFICES ASSUME OutboxInv, [Next]_vars  PROVE Owed'
  OBVIOUS
<1>a. /\ DataType /\ PassShape /\ VersionsAdvance /\ WorkDone /\ Owed
      /\ Taking => Taken \in Intent /\ current.row \in Row
      /\ Export \cap {"idle", "due"} = {}
  BY TakenType, OutboxAssumption DEF OutboxInv
<1>b. /\ todo # {} => Taking
      /\ failed => Taking
  BY <1>a DEF PassShape, DataType
<1>1. ASSUME NEW e \in Export, Ingest(e)  PROVE Owed'
  <2>1. PICK now \in Now : Enqueued(e, now)
    BY <1>1 DEF Ingest
  <2>2. \A i \in Intent : i[1] = e => rows'[i] = {Fresh(now)}
    BY <1>1, <2>1, <1>a DEF Enqueued, Ingest, VersionsAdvance
  <2>3. \A i \in Intent : i[1] = e => Latest(i)' # {}
    <3>1. Fresh(now).version =< Fresh(now).version
      BY IntentParts DEF Fresh
    <3> QED BY <2>2, <3>1 DEF Latest
  <2>4. \A i \in Intent : i[1] # e => rows'[i] = rows[i] /\ answer'[i[1]] = answer[i[1]]
    BY <1>1, <2>1, <1>a, IntentParts DEF Enqueued, Ingest, DataType
  <2>5. written' = written
    BY <1>1 DEF Ingest
  <2> QED BY <2>3, <2>4, <2>5, <1>a DEF Owed, Complete, Latest
<1>2. ASSUME NEW e \in Export, IngestFails(e)  PROVE Owed'
  BY <1>2, <1>a, <1>b, IntentParts
  DEF Owed, Complete, Latest, DataType, PassShape, IngestFails, worker, handler
<1>3. ASSUME NEW e \in Export, ProcessIDs(e)  PROVE Owed'
  BY <1>3, <1>a, <1>b, IntentParts
  DEF Owed, Complete, Latest, DataType, PassShape, ProcessIDs, tables, handler
<1>4. ASSUME ProcessDue  PROVE Owed'
  BY <1>4, <1>a, <1>b, IntentParts
  DEF Owed, Complete, Latest, DataType, PassShape, ProcessDue, tables, handler
<1>5. ASSUME PassEnds  PROVE Owed'
  BY <1>5, <1>a, <1>b, IntentParts
  DEF Owed, Complete, Latest, DataType, PassShape, PassEnds, Idle, Returned, Cancelled
<1>6. ASSUME NEW i \in Intent, Take(i)  PROVE Owed'
  BY <1>6, <1>a, <1>b, IntentParts
  DEF Owed, Complete, Latest, DataType, PassShape, Take, Latest, tables
<1>7. ASSUME NEW i \in Intent, Missing(i)  PROVE Owed'
  BY <1>7, <1>a, <1>b, IntentParts
  DEF Owed, Complete, Latest, DataType, PassShape, Missing, tables, handler
<1>8. ASSUME NEW w \in Item, SkipMarked(w)  PROVE Owed'
  BY <1>8, <1>a, <1>b, IntentParts
  DEF Owed, Complete, Latest, DataType, PassShape, SkipMarked, AtItem, tables
<1>9. ASSUME NEW w \in Item, WriteItem(w)  PROVE Owed'
  <2>1. w \in Item /\ Taking
    BY <1>9, <1>a, <1>b DEF WriteItem, AtItem
  <2>2. \A i \in Intent : \A x \in Item : written[i][x] > 0 => written'[i][x] > 0
    BY <1>9, <2>1, <1>a, Adds DEF WriteItem, DataType
  <2>3. \A i \in Intent : Complete(i) => Complete(i)'
    BY <2>2, IntentParts DEF Complete
  <2> QED BY <1>9, <2>3, <1>a DEF Owed, Latest, WriteItem
<1>10. ASSUME NEW w \in Item, WriteItemFails(w)  PROVE Owed'
  <2>1. w \in Item /\ Taking
    BY <1>10, <1>a, <1>b DEF WriteItemFails, AtItem
  <2>2. \A i \in Intent : \A x \in Item : written[i][x] > 0 => written'[i][x] > 0
    BY <1>10, <2>1, <1>a, Adds DEF WriteItemFails, DataType
  <2>3. \A i \in Intent : Complete(i) => Complete(i)'
    BY <2>2, IntentParts DEF Complete
  <2> QED BY <1>10, <2>3, <1>a DEF Owed, Latest, WriteItemFails
<1>11. ASSUME MarkItem  PROVE Owed'
  BY <1>11, <1>a, <1>b, IntentParts
  DEF Owed, Complete, Latest, DataType, PassShape, MarkItem
<1>12. ASSUME MarkItemFails  PROVE Owed'
  BY <1>12, <1>a, <1>b, IntentParts
  DEF Owed, Complete, Latest, DataType, PassShape, MarkItemFails
<1>13. ASSUME MarkProcessed  PROVE Owed'
  <2>1. Taking
    BY <1>13, <1>b DEF MarkProcessed, Derived, Taking
  <2>2. rows' = rows \/ \E r \in Row : r.version > current.row.version /\ Put(r)
    BY <1>13, <2>1, <1>a, Dispositions DEF MarkProcessed
  <2>3. \A i \in Intent : Latest(i) # {} => Latest(i)' # {}
    BY <2>1, <2>2, <1>a, Puts, PutIsNewest DEF Latest
  <2>4. \A i \in Intent : answer'[i[1]] \in {"ok", "deriving"} => answer[i[1]] \in {"ok", "deriving"}
    BY <1>13, <1>a, IntentParts DEF MarkProcessed, DataType, PassShape
  <2> QED BY <1>13, <2>3, <2>4, <1>a DEF Owed, Complete, MarkProcessed
<1>14. ASSUME MarkAttempt  PROVE Owed'
  <2>1. Taking
    BY <1>14, <1>b DEF MarkAttempt, Derived, Taking
  <2>2. rows' = rows \/ \E r \in Row : r.version > current.row.version /\ Put(r)
    BY <1>14, <2>1, <1>a, Dispositions DEF MarkAttempt, PutFailed
  <2>3. \A i \in Intent : Latest(i) # {} => Latest(i)' # {}
    BY <2>1, <2>2, <1>a, Puts, PutIsNewest DEF Latest
  <2>4. \A i \in Intent : answer'[i[1]] \in {"ok", "deriving"} => answer[i[1]] \in {"ok", "deriving"}
    BY <1>14, <1>a, IntentParts DEF MarkAttempt, DataType, PassShape
  <2> QED BY <1>14, <2>3, <2>4, <1>a DEF Owed, Complete, MarkAttempt
<1>15. ASSUME DispositionFails  PROVE Owed'
  <2>1. Taking
    BY <1>15, <1>b DEF DispositionFails, Derived, Taking
  <2>2. rows' = rows \/ \E r \in Row : r.version > current.row.version /\ Put(r)
    BY <1>15, <2>1, <1>a, Dispositions DEF DispositionFails, PutFailed
  <2>3. \A i \in Intent : Latest(i) # {} => Latest(i)' # {}
    BY <2>1, <2>2, <1>a, Puts, PutIsNewest DEF Latest
  <2>4. \A i \in Intent : answer'[i[1]] \in {"ok", "deriving"} => answer[i[1]] \in {"ok", "deriving"}
    BY <1>15, <1>a, IntentParts DEF DispositionFails, Returned, DataType, PassShape
  <2> QED BY <1>15, <2>3, <2>4, <1>a DEF Owed, Complete, DispositionFails
<1>16. ASSUME NEW i \in Intent, BackoffEnds(i)  PROVE Owed'
  BY <1>16, <1>a, <1>b, IntentParts
  DEF Owed, Complete, Latest, DataType, PassShape, BackoffEnds, worker, handler
<1>17. ASSUME NEW i \in Intent, Prune(i)  PROVE Owed'
  <2>1. /\ \A j \in Intent : rows'[j] \subseteq rows[j]
        /\ \A j \in Intent : \A r \in Latest(j) : r \in rows'[j] \/ r.processed
    BY <1>17, <1>a, Removals
  <2>2. \A j \in Intent : Latest(j) # {} => Complete(j) \/ Latest(j)' # {}
    BY <2>1, <1>a, LatestKept DEF WorkDone, Latest
  <2> QED BY <1>17, <2>2, <1>a DEF Owed, Complete, Prune
<1>18. ASSUME NEW i \in Intent, Merge(i)  PROVE Owed'
  <2>1. /\ \A j \in Intent : rows'[j] \subseteq rows[j]
        /\ \A j \in Intent : \A r \in Latest(j) : r \in rows'[j] \/ r.processed
    BY <1>18, <1>a, Removals
  <2>2. \A j \in Intent : Latest(j) # {} => Complete(j) \/ Latest(j)' # {}
    BY <2>1, <1>a, LatestKept DEF WorkDone, Latest
  <2> QED BY <1>18, <2>2, <1>a DEF Owed, Complete, Merge
<1>19. ASSUME Stop  PROVE Owed'
  BY <1>19, <1>a, <1>b, IntentParts
  DEF Owed, Complete, Latest, DataType, PassShape, Stop, tables, worker, handler
<1>20. ASSUME Exit  PROVE Owed'
  BY <1>20, <1>a, <1>b, IntentParts
  DEF Owed, Complete, Latest, DataType, PassShape, Exit, Gone, Idle, Free
<1>21. ASSUME Crash  PROVE Owed'
  BY <1>21, <1>a, <1>b, IntentParts
  DEF Owed, Complete, Latest, DataType, PassShape, Crash, Gone, Idle, Free
<1>22. ASSUME Start  PROVE Owed'
  BY <1>22, <1>a, <1>b, IntentParts
  DEF Owed, Complete, Latest, DataType, PassShape, Start, tables, worker, handler
<1>23. CASE UNCHANGED vars
  BY <1>23, <1>a, <1>b, IntentParts
  DEF Owed, Complete, Latest, DataType, PassShape, vars, tables, worker, handler
<1> QED
  BY <1>1, <1>2, <1>3, <1>4, <1>5, <1>6, <1>7, <1>8, <1>9, <1>10, <1>11, <1>12, <1>13,
     <1>14, <1>15, <1>16, <1>17, <1>18, <1>19, <1>20, <1>21, <1>22, <1>23
  DEF Next, Progress, Handle

(* Attempts stay within the budgets, and one beyond them.                  *)
LEMMA AttemptsStep == OutboxInv /\ [Next]_vars => AttemptsBounded'
<1> SUFFICES ASSUME OutboxInv, [Next]_vars  PROVE AttemptsBounded'
  OBVIOUS
<1>a. /\ DataType /\ PassShape /\ VersionsAdvance /\ DueOpen /\ AttemptsBounded
      /\ Taking => Taken \in Intent /\ current.row \in Row
      /\ Export \cap {"idle", "due"} = {}
      /\ Budget \subseteq Nat /\ Budget # {}
      /\ \A i \in Intent : \A r \in rows[i] : r.attempts \in Nat
  BY TakenType, OutboxAssumption DEF OutboxInv, DataType, Row
<1>b. /\ todo # {} => Taking
      /\ failed => Taking
  BY <1>a DEF PassShape, DataType
<1>1. ASSUME NEW e \in Export, Ingest(e)  PROVE AttemptsBounded'
  <2>1. PICK now \in Now : Enqueued(e, now)
    BY <1>1 DEF Ingest
  <2>2. Fresh(now).attempts = 0
    BY DEF Fresh
  <2>3. Within(Fresh(now)) /\ \E b \in Budget : Fresh(now).attempts =< b + 1
    BY <2>2, <1>a DEF Within
  <2>4. \A i \in Intent : IF i[1] = e THEN rows'[i] = {Fresh(now)} ELSE rows'[i] = rows[i]
    BY <1>1, <2>1, <1>a DEF Ingest, Enqueued, VersionsAdvance
  <2>5. /\ UNCHANGED <<current, pass, batch>>
        /\ \A i \in Intent : i[1] # e => answer'[i[1]] = answer[i[1]]
    BY <1>1, <1>a, IntentParts DEF Ingest, worker, handler, DataType
  <2>6. Taking' => Taking /\ Taken' = Taken /\ current' = current
    BY <2>5 DEF Taking, Taken
  <2>7. \A i \in Intent : \A r \in rows'[i] : \E b \in Budget : r.attempts =< b + 1
    BY <2>3, <2>4, <1>a DEF AttemptsBounded
  <2>8. \A i \in Intent : i[1] = e => \A r \in rows'[i] : Within(r)
    BY <2>3, <2>4
  <2> QED
    BY <2>4, <2>5, <2>6, <2>7, <2>8, <1>a
    DEF AttemptsBounded, Within, Taking, Taken
<1>2. ASSUME NEW e \in Export, IngestFails(e)  PROVE AttemptsBounded'
  BY <1>2, <1>a, <1>b, IntentParts, NoIntent
  DEF AttemptsBounded, Within, DataType, PassShape, Taking, Taken, Free, IngestFails,
      worker, handler
<1>3. ASSUME NEW e \in Export, ProcessIDs(e)  PROVE AttemptsBounded'
  BY <1>3, <1>a, <1>b, IntentParts, NoIntent
  DEF AttemptsBounded, Within, DataType, PassShape, Taking, Taken, Free, ProcessIDs,
      tables, handler
<1>4. ASSUME ProcessDue  PROVE AttemptsBounded'
  BY <1>4, <1>a, <1>b, IntentParts, NoIntent
  DEF AttemptsBounded, Within, DataType, PassShape, Taking, Taken, Free, ProcessDue,
      tables, handler
<1>5. ASSUME PassEnds  PROVE AttemptsBounded'
  BY <1>5, <1>a, <1>b, IntentParts, NoIntent
  DEF AttemptsBounded, Within, DataType, PassShape, Taking, Taken, Free, PassEnds,
      Idle, Returned, Cancelled
<1>6. ASSUME NEW i \in Intent, Take(i)  PROVE AttemptsBounded'
  <2>1. PICK r \in Latest(i) : current' = [intent |-> i, row |-> r]
    BY <1>6 DEF Take
  <2>2. /\ UNCHANGED <<pass, answer, rows>> /\ batch' = batch \ {i} /\ i \in batch /\ r \in rows[i]
        /\ pass = "due" \/ pass \in Export
    BY <1>6, <2>1, <1>a DEF Take, tables, Latest, DataType, PassShape
  <2>3. Within(r)
    <3>1. CASE pass = "due"
      <4>1. r.attempts < budget /\ budget \in Budget
        BY <3>1, <2>1, <2>2, <1>a, LatestIsUnique DEF DueOpen, Open, DataType
      <4> QED BY <4>1, <2>2, <1>a DEF Within
    <3>2. CASE pass \in Export
      BY <3>2, <2>2, <1>a DEF PassShape, AttemptsBounded
    <3> QED BY <3>1, <3>2, <2>2
  <2>4. Taken' = i /\ current'.row = r
    BY <2>1 DEF Taken
  <2> QED BY <2>2, <2>3, <2>4, <1>a DEF AttemptsBounded, Within
<1>7. ASSUME NEW i \in Intent, Missing(i)  PROVE AttemptsBounded'
  BY <1>7, <1>a, <1>b, IntentParts, NoIntent
  DEF AttemptsBounded, Within, DataType, PassShape, Taking, Taken, Free, Missing,
      tables, handler
<1>8. ASSUME NEW w \in Item, SkipMarked(w)  PROVE AttemptsBounded'
  BY <1>8, <1>a, <1>b, IntentParts, NoIntent
  DEF AttemptsBounded, Within, DataType, PassShape, Taking, Taken, Free, SkipMarked,
      AtItem, tables
<1>9. ASSUME NEW w \in Item, WriteItem(w)  PROVE AttemptsBounded'
  BY <1>9, <1>a, <1>b, IntentParts, NoIntent
  DEF AttemptsBounded, Within, DataType, PassShape, Taking, Taken, Free, WriteItem,
      AtItem
<1>10. ASSUME NEW w \in Item, WriteItemFails(w)  PROVE AttemptsBounded'
  BY <1>10, <1>a, <1>b, IntentParts, NoIntent
  DEF AttemptsBounded, Within, DataType, PassShape, Taking, Taken, Free,
      WriteItemFails, AtItem, AfterFailure
<1>11. ASSUME MarkItem  PROVE AttemptsBounded'
  BY <1>11, <1>a, <1>b, IntentParts, NoIntent
  DEF AttemptsBounded, Within, DataType, PassShape, Taking, Taken, Free, MarkItem
<1>12. ASSUME MarkItemFails  PROVE AttemptsBounded'
  BY <1>12, <1>a, <1>b, IntentParts, NoIntent
  DEF AttemptsBounded, Within, DataType, PassShape, Taking, Taken, Free, MarkItemFails
<1>13. ASSUME MarkProcessed  PROVE AttemptsBounded'
  <2>1. Taking
    BY <1>13, <1>b DEF MarkProcessed, Derived, Taking
  <2>2. /\ pass = "due" => current.row.attempts + 1 =< budget /\ budget \in Budget
        /\ Within(current.row) /\ current.row.attempts \in Nat
    BY <2>1, <1>a DEF DueOpen, Open, AttemptsBounded, DataType, Row
  <2>3. \/ rows' = rows
        \/ \E r \in Row :
             /\ Put(r) /\ r.attempts \in current.row.attempts .. current.row.attempts + 1
             /\ pass = "due" => Within(r)
    BY <1>13, <2>1, <2>2, <1>a, RowsPut DEF MarkProcessed, Within
  <2>4. /\ \A i \in Intent : i # Taken => rows'[i] = rows[i]
        /\ \A r \in rows'[Taken] : \E b \in Budget : r.attempts =< b + 1
        /\ pass = "due" /\ (\A r \in rows[Taken] : Within(r)) => \A r \in rows'[Taken] : Within(r)
    <3>1. \A r \in Row : Put(r) =>
             /\ rows'[Taken] = rows[Taken] \cup {r}
             /\ \A i \in Intent : i # Taken => rows'[i] = rows[i]
      BY <2>1, <1>a, Puts
    <3>2. \E b \in Budget : b \in Nat /\ current.row.attempts =< b
      BY <2>2, <1>a DEF Within
    <3>3. \A r \in Row : r.attempts \in current.row.attempts .. current.row.attempts + 1
             => \E b \in Budget : r.attempts =< b + 1
      BY <3>2, <2>2
    <3>4. /\ \A i \in Intent : i # Taken => rows'[i] = rows[i]
          /\ \A r \in rows'[Taken] : r \in rows[Taken] \/ \E b \in Budget : r.attempts =< b + 1
          /\ \A r \in rows'[Taken] : r \in rows[Taken] \/ (pass = "due" => Within(r))
      BY <3>1, <3>3, <2>3
    <3> QED BY <3>4, <2>1, <1>a DEF AttemptsBounded
  <2>5. pass = "due" \/ pass = Taken[1]
    BY <2>1, <1>a DEF PassShape, DataType
  <2>6. ~Taking' /\ Taken \notin batch
    BY <1>13, <2>1, <1>a DEF MarkProcessed, Disposed, Taking, PassShape
  <2>7. UNCHANGED <<answer, pass, batch>>
    BY <1>13 DEF MarkProcessed
  <2> QED BY <2>4, <2>5, <2>6, <2>7, <1>a DEF AttemptsBounded
<1>14. ASSUME MarkAttempt  PROVE AttemptsBounded'
  <2>1. Taking
    BY <1>14, <1>b DEF MarkAttempt, Derived, Taking
  <2>2. /\ pass = "due" => current.row.attempts + 1 =< budget /\ budget \in Budget
        /\ Within(current.row) /\ current.row.attempts \in Nat
    BY <2>1, <1>a DEF DueOpen, Open, AttemptsBounded, DataType, Row
  <2>3. \/ rows' = rows
        \/ \E r \in Row :
             /\ Put(r) /\ r.attempts \in current.row.attempts .. current.row.attempts + 1
             /\ pass = "due" => Within(r)
    <3>1. PICK now \in Now : Put(FailedRow(now))
      BY <1>14 DEF MarkAttempt, PutFailed
    <3>2. FailedRow(now) \in Row /\ FailedRow(now).attempts = current.row.attempts + 1
      BY <2>1, <1>a, RowsPut
    <3>3. pass = "due" => Within(FailedRow(now))
      BY <3>2, <2>2 DEF Within
    <3> QED BY <3>1, <3>2, <3>3, <2>2
  <2>4. /\ \A i \in Intent : i # Taken => rows'[i] = rows[i]
        /\ \A r \in rows'[Taken] : \E b \in Budget : r.attempts =< b + 1
        /\ pass = "due" /\ (\A r \in rows[Taken] : Within(r)) => \A r \in rows'[Taken] : Within(r)
    <3>1. \A r \in Row : Put(r) =>
             /\ rows'[Taken] = rows[Taken] \cup {r}
             /\ \A i \in Intent : i # Taken => rows'[i] = rows[i]
      BY <2>1, <1>a, Puts
    <3>2. \E b \in Budget : b \in Nat /\ current.row.attempts =< b
      BY <2>2, <1>a DEF Within
    <3>3. \A r \in Row : r.attempts \in current.row.attempts .. current.row.attempts + 1
             => \E b \in Budget : r.attempts =< b + 1
      BY <3>2, <2>2
    <3>4. /\ \A i \in Intent : i # Taken => rows'[i] = rows[i]
          /\ \A r \in rows'[Taken] : r \in rows[Taken] \/ \E b \in Budget : r.attempts =< b + 1
          /\ \A r \in rows'[Taken] : r \in rows[Taken] \/ (pass = "due" => Within(r))
      BY <3>1, <3>3, <2>3
    <3> QED BY <3>4, <2>1, <1>a DEF AttemptsBounded
  <2>5. pass = "due" \/ pass = Taken[1]
    BY <2>1, <1>a DEF PassShape, DataType
  <2>6. ~Taking' /\ Taken \notin batch
    BY <1>14, <2>1, <1>a DEF MarkAttempt, Disposed, Taking, PassShape
  <2>7. UNCHANGED <<answer, pass, batch>>
    BY <1>14 DEF MarkAttempt
  <2> QED BY <2>4, <2>5, <2>6, <2>7, <1>a DEF AttemptsBounded
<1>15. ASSUME DispositionFails  PROVE AttemptsBounded'
  <2>1. Taking
    BY <1>15, <1>b DEF DispositionFails, Derived, Taking
  <2>2. /\ pass = "due" => current.row.attempts + 1 =< budget /\ budget \in Budget
        /\ Within(current.row) /\ current.row.attempts \in Nat
    BY <2>1, <1>a DEF DueOpen, Open, AttemptsBounded, DataType, Row
  <2>3. \/ rows' = rows
        \/ \E r \in Row :
             /\ Put(r) /\ r.attempts \in current.row.attempts .. current.row.attempts + 1
             /\ pass = "due" => Within(r)
    BY <1>15, <2>1, <2>2, <1>a, RowsPut DEF DispositionFails, PutFailed, Within
  <2>4. /\ \A i \in Intent : i # Taken => rows'[i] = rows[i]
        /\ \A r \in rows'[Taken] : \E b \in Budget : r.attempts =< b + 1
        /\ pass = "due" /\ (\A r \in rows[Taken] : Within(r)) => \A r \in rows'[Taken] : Within(r)
    <3>1. \A r \in Row : Put(r) =>
             /\ rows'[Taken] = rows[Taken] \cup {r}
             /\ \A i \in Intent : i # Taken => rows'[i] = rows[i]
      BY <2>1, <1>a, Puts
    <3>2. \E b \in Budget : b \in Nat /\ current.row.attempts =< b
      BY <2>2, <1>a DEF Within
    <3>3. \A r \in Row : r.attempts \in current.row.attempts .. current.row.attempts + 1
             => \E b \in Budget : r.attempts =< b + 1
      BY <3>2, <2>2
    <3>4. /\ \A i \in Intent : i # Taken => rows'[i] = rows[i]
          /\ \A r \in rows'[Taken] : r \in rows[Taken] \/ \E b \in Budget : r.attempts =< b + 1
          /\ \A r \in rows'[Taken] : r \in rows[Taken] \/ (pass = "due" => Within(r))
      BY <3>1, <3>3, <2>3
    <3> QED BY <3>4, <2>1, <1>a DEF AttemptsBounded
  <2>5. pass = "due" \/ pass = Taken[1]
    BY <2>1, <1>a DEF PassShape, DataType
  <2>6. ~Taking' /\ Taken \notin batch
    BY <1>15, <2>1, <1>a DEF DispositionFails, Returned, Idle, Taking, PassShape
  <2>7. /\ pass' = "idle"
        /\ \A i \in Intent : answer'[i[1]] = "deriving" => answer[i[1]] = "deriving" /\ pass # i[1]
    BY <1>15, <1>a, IntentParts DEF DispositionFails, Returned, Idle, DataType
  <2> QED BY <2>1, <2>4, <2>5, <2>6, <2>7, <1>a, IntentParts DEF AttemptsBounded
<1>16. ASSUME NEW i \in Intent, BackoffEnds(i)  PROVE AttemptsBounded'
  BY <1>16, <1>a, <1>b, IntentParts, NoIntent
  DEF AttemptsBounded, Within, DataType, PassShape, Taking, Taken, Free, BackoffEnds,
      worker, handler
<1>17. ASSUME NEW i \in Intent, Prune(i)  PROVE AttemptsBounded'
  <2>1. \A j \in Intent : rows'[j] \subseteq rows[j]
    BY <1>17, <1>a, Removals
  <2> QED
    BY <1>17, <2>1, <1>a
    DEF AttemptsBounded, Within, Prune, worker, handler, Taking, Taken
<1>18. ASSUME NEW i \in Intent, Merge(i)  PROVE AttemptsBounded'
  <2>1. \A j \in Intent : rows'[j] \subseteq rows[j]
    BY <1>18, <1>a, Removals
  <2> QED
    BY <1>18, <2>1, <1>a
    DEF AttemptsBounded, Within, Merge, worker, handler, Taking, Taken
<1>19. ASSUME Stop  PROVE AttemptsBounded'
  BY <1>19, <1>a, <1>b, IntentParts, NoIntent
  DEF AttemptsBounded, Within, DataType, PassShape, Taking, Taken, Free, Stop, tables,
      worker, handler
<1>20. ASSUME Exit  PROVE AttemptsBounded'
  BY <1>20, <1>a, <1>b, IntentParts, NoIntent
  DEF AttemptsBounded, Within, DataType, PassShape, Taking, Taken, Free, Exit, Gone,
      Idle, Free
<1>21. ASSUME Crash  PROVE AttemptsBounded'
  BY <1>21, <1>a, <1>b, IntentParts, NoIntent
  DEF AttemptsBounded, Within, DataType, PassShape, Taking, Taken, Free, Crash, Gone,
      Idle, Free
<1>22. ASSUME Start  PROVE AttemptsBounded'
  BY <1>22, <1>a, <1>b, IntentParts, NoIntent
  DEF AttemptsBounded, Within, DataType, PassShape, Taking, Taken, Free, Start,
      tables, worker, handler
<1>23. CASE UNCHANGED vars
  BY <1>23, <1>a, <1>b, IntentParts, NoIntent
  DEF AttemptsBounded, Within, DataType, PassShape, Taking, Taken, Free, vars, tables,
      worker, handler
<1> QED
  BY <1>1, <1>2, <1>3, <1>4, <1>5, <1>6, <1>7, <1>8, <1>9, <1>10, <1>11, <1>12, <1>13,
     <1>14, <1>15, <1>16, <1>17, <1>18, <1>19, <1>20, <1>21, <1>22, <1>23
  DEF Next, Progress, Handle

(* The empty table and an idle worker.                                     *)
LEMMA InitInv == Init => OutboxInv
<1> SUFFICES ASSUME Init  PROVE OutboxInv
  OBVIOUS
<1>1. Free \notin [intent : Intent, row : Row] /\ ~Taking
  BY NoIntent DEF Init, Free, Taking
<1>2. DataType
  <2>1. /\ rows \in [Intent -> SUBSET Row] /\ written \in [Intent -> [Item -> 0..Cap]]
        /\ answer \in [Export -> {"none", "ok", "deriving", "refused"}]
    BY IntentParts DEF Init
  <2> QED BY <2>1 DEF Init, DataType
<1>3. PassShape
  BY <1>1, OutboxAssumption DEF Init, PassShape
<1>4. VersionsAdvance /\ DueOpen
  BY <1>1 DEF Init, VersionsAdvance, DueOpen
<1>5. WorkDone
  BY <1>1 DEF Init, WorkDone
<1>6. Owed
  BY IntentParts DEF Init, Owed
<1>7. AttemptsBounded
  BY <1>1 DEF Init, AttemptsBounded
<1> QED BY <1>2, <1>3, <1>4, <1>5, <1>6, <1>7 DEF OutboxInv

(* Every reachable state satisfies the inductive invariant.                *)
THEOREM OutboxInvariant == Spec => []OutboxInv
<1>1. Init => OutboxInv
  BY InitInv
<1>2. OutboxInv /\ [Next]_vars => OutboxInv'
  BY TypeStep, PassStep, VersionStep, DueStep, WorkStep, OwedStep, AttemptsStep
  DEF OutboxInv
<1> QED BY <1>1, <1>2, PTL DEF Spec

(* Every state of the outbox has its types; in particular no row of        *)
(* derived_outbox ever counts more than one attempt beyond a budget a      *)
(* process was started with (claimDue and markAttempt, outbox.go).         *)
THEOREM TypeCorrect == Spec => []TypeOK
<1>1. OutboxInv => TypeOK
  BY DEF OutboxInv, DataType, AttemptsBounded, TypeOK
<1> QED BY <1>1, OutboxInvariant, PTL

(* What an export was answered 200 for is derived, or an intent for it is  *)
(* still in derived_outbox, unprocessed: through failing handlers and      *)
(* dispositions, crashes, stops, the retention and the engine's merges.    *)
THEOREM AcknowledgedIsKept == Spec => []DerivedOrKept
<1>1. OutboxInv => DerivedOrKept
  BY DEF OutboxInv, WorkDone, Owed, DerivedOrKept, Pending, Latest
<1> QED BY <1>1, OutboxInvariant, PTL

(* Processed and dead are final for the worker: no step of it, of a stop   *)
(* or a crash, of a merge or of an ingest makes a settled intent pending   *)
(* again.                                                                  *)
THEOREM SettledIsFinal == Spec => SettledForGood
<1> DEFINE Stays ==
      prunes' = prunes /\ pass \notin Seed =>
        \A i \in Intent : Settled(i) => Settled(i)' \/ rows'[i] = {}
<1>1. OutboxInv /\ [Next]_vars => Stays
  <2> SUFFICES ASSUME OutboxInv, [Next]_vars, prunes' = prunes, pass \notin Seed,
                      NEW i \in Intent, Settled(i)
               PROVE  Settled(i)' \/ rows'[i] = {}
    OBVIOUS
  <2>a. /\ DataType /\ PassShape /\ VersionsAdvance /\ DueOpen
        /\ Taking => Taken \in Intent /\ current.row \in Row
    BY TakenType DEF OutboxInv
  <2>b. failed => Taking
    BY <2>a DEF PassShape
  <2>1. Taking => i # Taken
    <3> SUFFICES ASSUME Taking, i = Taken  PROVE FALSE
      OBVIOUS
    <3>1. pass = "due"
      BY <2>a DEF PassShape, DataType
    <3>2. current.row \in Latest(i)
      BY <2>a, <3>1 DEF DueOpen, VersionsAdvance, Latest
    <3> QED BY <3>1, <3>2, <2>a DEF Settled, DueOpen, Open
  <2>2. rows[i] # {}
    BY DEF Settled, Latest
  <2>3. CASE rows'[i] = rows[i]
    BY <2>3 DEF Settled, Latest
  <2>4. ASSUME NEW e \in Export, Ingest(e)  PROVE rows'[i] = rows[i]
    BY <2>4, <2>2, <2>a DEF Ingest, Enqueued, VersionsAdvance
  <2>5. CASE MarkProcessed \/ MarkAttempt \/ DispositionFails
    <3>1. Taking
      BY <2>5, <2>b DEF MarkProcessed, MarkAttempt, DispositionFails, Derived, Taking
    <3>2. rows' = rows \/ \E r \in Row : r.version > current.row.version /\ Put(r)
      BY <2>5, <3>1, <2>a, Dispositions
         DEF MarkProcessed, MarkAttempt, DispositionFails, PutFailed
    <3> QED BY <3>1, <3>2, <2>1, <2>3, <2>a, Puts
  <2>6. ASSUME NEW j \in Intent, Merge(j)  PROVE Settled(i)' \/ rows'[i] = {}
    <3>1. PICK r \in Latest(j) : rows'[j] = {r} /\ \A k \in Intent : k # j => rows'[k] = rows[k]
      BY <2>6, <2>a DEF Merge, DataType
    <3>2. CASE i = j
      <4>1. Latest(i)' = {r}
        BY <3>1, <3>2, <2>a DEF Latest, DataType, Row
      <4> QED BY <4>1, <3>1, <3>2 DEF Settled
    <3> QED BY <3>1, <3>2, <2>3
  <2>7. ASSUME NEW j \in Intent, Prune(j)  PROVE FALSE
    BY <2>7, <2>a DEF Prune, DataType
  <2>8. CASE rows' = rows
    BY <2>8, <2>3
  <2> QED
    BY <2>3, <2>4, <2>5, <2>6, <2>7, <2>8
    DEF Next, Progress, Handle, IngestFails, ProcessIDs, ProcessDue, PassEnds, Returned, Take,
        Missing, SkipMarked, WriteItem, WriteItemFails, MarkItem, MarkItemFails, BackoffEnds,
        Stop, Exit, Crash, Gone, Start, tables, vars
<1> QED BY <1>1, OutboxInvariant, PTL DEF Spec, SettledForGood

(* What the interruptions so far allow.                                    *)
LEMMA TollStep ==
  ASSUME DataType, NEW i \in Intent
  PROVE  /\ Extra(i) \in {1, 2} /\ Ahead(i) \in 0 .. Extra(i)
         /\ Toll(i) \in Nat
         /\ UNCHANGED <<crashes, stops>> => Toll(i)' = Toll(i)
         /\ crashes' = crashes + 1 /\ stops' = stops => Toll(i)' = Toll(i) + 1
         /\ crashes' = crashes /\ stops' = stops + 1 => Toll(i)' = Toll(i) + Extra(i)
<1>1. Extra(i) \in {1, 2}
  BY DEF Extra
<1>2. Ahead(i) \in 0 .. Extra(i)
  BY <1>1 DEF Ahead
<1>3. CASE i[1] \in Seed
  BY <1>1, <1>2, <1>3 DEF Extra, Toll, DataType
<1>4. CASE i[1] \notin Seed
  BY <1>1, <1>2, <1>4 DEF Extra, Toll, DataType
<1> QED BY <1>3, <1>4

(* A step that writes no item needs only to pay for what it leaves.        *)
LEMMA StillExplained ==
  ASSUME DataType, DataType', NEW i \in Intent, NEW w \in Work(i), Explained(i, w),
         written' = written, marked' = marked, Toll(i)' >= Toll(i),
         Toll(i)' + Unsettled(i, w)' - Ahead(i)' >= Toll(i) + Unsettled(i, w) - Ahead(i)
  PROVE  Explained(i, w)'
<1>1. /\ Toll(i) \in Int /\ Toll(i)' \in Int /\ Ahead(i) \in Int /\ Ahead(i)' \in Int
      /\ Unsettled(i, w) \in Int /\ Unsettled(i, w)' \in Int
      /\ written[i][w] \in Int
  <2>1. Toll(i) \in Int /\ Ahead(i) \in Int
    BY TollStep
  <2>2. Toll(i)' \in Int /\ Ahead(i)' \in Int
    BY DEF Toll, Ahead, Extra, DataType
  <2> QED BY <2>1, <2>2, IntentParts DEF Unsettled, DataType
<1> QED BY <1>1 DEF Explained

(* Every step pays for its counts: where no write is torn and no marker    *)
(* fails by itself, only a crash or a cancelled context is between the     *)
(* two.                                                                    *)
LEMMA CountStep ==
  ASSUME FaultKind \cap {"torn", "marker"} = {}
  PROVE  OutboxInv /\ CountsExplained /\ [Next]_vars => CountsExplained'
<1> SUFFICES ASSUME OutboxInv, CountsExplained, [Next]_vars,
                    NEW j \in Intent, j[2] = "detector", NEW x \in Work(j)
             PROVE  Explained(j, x)'
  BY DEF CountsExplained
<1>a. /\ DataType /\ PassShape /\ Explained(j, x) /\ x \in Item /\ x # None
      /\ Taking => Taken \in Intent
      /\ "due" \notin Export
  BY TakenType, IntentParts, NoIntent, OutboxAssumption DEF OutboxInv, CountsExplained
<1>b. /\ unmarked # None => Taking /\ unmarked \in todo
      /\ todo # {} => Taking
      /\ failed => Taking
  BY <1>a DEF PassShape, DataType
<1>c. DataType'
  BY TypeStep
<1>d. /\ Extra(j) \in {1, 2} /\ Ahead(j) \in 0 .. Extra(j) /\ Toll(j) \in Nat
      /\ Unsettled(j, x) \in {0, 1} /\ written[j][x] \in Nat
      /\ UNCHANGED <<crashes, stops>> => Toll(j)' = Toll(j)
      /\ crashes' = crashes + 1 /\ stops' = stops => Toll(j)' = Toll(j) + 1
      /\ crashes' = crashes /\ stops' = stops + 1 => Toll(j)' = Toll(j) + Extra(j)
  BY <1>a, TollStep, IntentParts DEF Unsettled, DataType
<1>e. Unsettled(j, x)' \in {0, 1} /\ Ahead(j)' \in {0, Extra(j), Extra(j) - 1} /\ Extra(j)' = Extra(j)
  BY DEF Unsettled, Ahead, Extra
<1>1. ASSUME NEW e \in Export, Ingest(e)  PROVE Explained(j, x)'
  <2>1. written' = written /\ marked' = marked
    BY <1>1 DEF Ingest, tables, worker, handler, tables
  <2>2. Toll(j)' + Unsettled(j, x)' - Ahead(j)' >= Toll(j) + Unsettled(j, x) - Ahead(j)
    BY <1>1, <1>a, <1>b, <1>d, <1>e
    DEF Ingest, tables, worker, handler, Unsettled, Ahead, Taking, Taken, PassShape, DataType, Cancelled, tables
  <2>3. Toll(j)' >= Toll(j)
    BY <1>1, <1>d DEF Ingest, tables, worker, handler
  <2> QED BY <2>1, <2>2, <2>3, <1>a, <1>c, StillExplained
<1>2. ASSUME NEW e \in Export, IngestFails(e)  PROVE Explained(j, x)'
  <2>1. written' = written /\ marked' = marked
    BY <1>2 DEF IngestFails, worker, handler, tables
  <2>2. Toll(j)' + Unsettled(j, x)' - Ahead(j)' >= Toll(j) + Unsettled(j, x) - Ahead(j)
    BY <1>2, <1>a, <1>b, <1>d, <1>e
    DEF IngestFails, worker, handler, Unsettled, Ahead, Taking, Taken, PassShape, DataType, Cancelled, tables
  <2>3. Toll(j)' >= Toll(j)
    BY <1>2, <1>d DEF IngestFails, worker, handler
  <2> QED BY <2>1, <2>2, <2>3, <1>a, <1>c, StillExplained
<1>3. ASSUME NEW e \in Export, ProcessIDs(e)  PROVE Explained(j, x)'
  <2>1. written' = written /\ marked' = marked
    BY <1>3 DEF ProcessIDs, tables, handler, tables
  <2>2. Toll(j)' + Unsettled(j, x)' - Ahead(j)' >= Toll(j) + Unsettled(j, x) - Ahead(j)
    BY <1>3, <1>a, <1>b, <1>d, <1>e
    DEF ProcessIDs, tables, handler, Unsettled, Ahead, Taking, Taken, PassShape, DataType, Cancelled, tables
  <2>3. Toll(j)' >= Toll(j)
    BY <1>3, <1>d DEF ProcessIDs, tables, handler
  <2> QED BY <2>1, <2>2, <2>3, <1>a, <1>c, StillExplained
<1>4. ASSUME ProcessDue  PROVE Explained(j, x)'
  <2>1. written' = written /\ marked' = marked
    BY <1>4 DEF ProcessDue, tables, handler, tables
  <2>2. Toll(j)' + Unsettled(j, x)' - Ahead(j)' >= Toll(j) + Unsettled(j, x) - Ahead(j)
    BY <1>4, <1>a, <1>b, <1>d, <1>e
    DEF ProcessDue, tables, handler, Unsettled, Ahead, Taking, Taken, PassShape, DataType, Cancelled, tables
  <2>3. Toll(j)' >= Toll(j)
    BY <1>4, <1>d DEF ProcessDue, tables, handler
  <2> QED BY <2>1, <2>2, <2>3, <1>a, <1>c, StillExplained
<1>5. ASSUME PassEnds  PROVE Explained(j, x)'
  <2>1. written' = written /\ marked' = marked
    BY <1>5 DEF PassEnds, Idle, Returned, Cancelled, tables
  <2>2. Toll(j)' + Unsettled(j, x)' - Ahead(j)' >= Toll(j) + Unsettled(j, x) - Ahead(j)
    BY <1>5, <1>a, <1>b, <1>d, <1>e
    DEF PassEnds, Idle, Returned, Cancelled, Unsettled, Ahead, Taking, Taken, PassShape, DataType, Cancelled, tables
  <2>3. Toll(j)' >= Toll(j)
    BY <1>5, <1>d DEF PassEnds, Idle, Returned, Cancelled
  <2> QED BY <2>1, <2>2, <2>3, <1>a, <1>c, StillExplained
<1>6. ASSUME NEW i \in Intent, Take(i)  PROVE Explained(j, x)'
  <2>1. written' = written /\ marked' = marked
    BY <1>6 DEF Take, tables, tables
  <2>2. Toll(j)' + Unsettled(j, x)' - Ahead(j)' >= Toll(j) + Unsettled(j, x) - Ahead(j)
    BY <1>6, <1>a, <1>b, <1>d, <1>e
    DEF Take, tables, Unsettled, Ahead, Taking, Taken, PassShape, DataType, Cancelled, tables
  <2>3. Toll(j)' >= Toll(j)
    BY <1>6, <1>d DEF Take, tables
  <2> QED BY <2>1, <2>2, <2>3, <1>a, <1>c, StillExplained
<1>7. ASSUME NEW i \in Intent, Missing(i)  PROVE Explained(j, x)'
  <2>1. written' = written /\ marked' = marked
    BY <1>7 DEF Missing, tables, handler, tables
  <2>2. Toll(j)' + Unsettled(j, x)' - Ahead(j)' >= Toll(j) + Unsettled(j, x) - Ahead(j)
    BY <1>7, <1>a, <1>b, <1>d, <1>e
    DEF Missing, tables, handler, Unsettled, Ahead, Taking, Taken, PassShape, DataType, Cancelled, tables
  <2>3. Toll(j)' >= Toll(j)
    BY <1>7, <1>d DEF Missing, tables, handler
  <2> QED BY <2>1, <2>2, <2>3, <1>a, <1>c, StillExplained
<1>8. ASSUME NEW w \in Item, SkipMarked(w)  PROVE Explained(j, x)'
  <2>1. written' = written /\ marked' = marked
    BY <1>8 DEF SkipMarked, AtItem, tables, tables
  <2>2. Toll(j)' + Unsettled(j, x)' - Ahead(j)' >= Toll(j) + Unsettled(j, x) - Ahead(j)
    BY <1>8, <1>a, <1>b, <1>d, <1>e
    DEF SkipMarked, AtItem, tables, Unsettled, Ahead, Taking, Taken, PassShape, DataType, Cancelled, tables
  <2>3. Toll(j)' >= Toll(j)
    BY <1>8, <1>d DEF SkipMarked, AtItem, tables
  <2> QED BY <2>1, <2>2, <2>3, <1>a, <1>c, StillExplained
<1>9. ASSUME NEW w \in Item, WriteItem(w)  PROVE Explained(j, x)'
  <2>1. /\ Taking /\ w \in Item /\ unmarked = None /\ AddOne(w)
        /\ UNCHANGED <<current, marked, proc, pass, failed, crashes, stops>>
    BY <1>9, <1>b DEF WriteItem, AtItem
  <2>2. CASE Taken = j /\ w = x
    <3>1. <<j, x>> \notin marked /\ unmarked' = x
      BY <1>9, <2>2, <1>a DEF WriteItem, IsMarked, HasMarkers
    <3>2. Unsettled(j, x) = 0 /\ Unsettled(j, x)' = 1 /\ Ahead(j)' = Ahead(j)
      BY <2>1, <2>2, <3>1, <1>a DEF Unsettled, Taking, Taken, Ahead, Extra
    <3>3. written'[j][x] =< written[j][x] + 1 /\ written'[j][x] \in Nat
      BY <2>1, <2>2, <1>a, Adds, IntentParts, <1>c DEF DataType
    <3> QED BY <2>1, <3>1, <3>2, <3>3, <1>a, <1>d DEF Explained
  <2>3. CASE ~(Taken = j /\ w = x)
    <3>1. written'[j][x] = written[j][x]
      BY <2>1, <2>3, <1>a, Adds
    <3>2. Ahead(j)' = Ahead(j) /\ Unsettled(j, x) = 0
      BY <2>1, <1>a DEF Ahead, Extra, Unsettled
    <3> QED BY <2>1, <3>1, <3>2, <1>a, <1>d, <1>e DEF Explained
  <2> QED BY <2>2, <2>3
<1>10. ASSUME NEW w \in Item, WriteItemFails(w)  PROVE Explained(j, x)'
  <2>1. /\ Taking /\ w \in Item /\ unmarked = None /\ ~failed /\ failed'
        /\ UNCHANGED <<current, unmarked, marked, proc, pass, crashes, stops>>
    BY <1>10, <1>b DEF WriteItemFails, AtItem, AfterFailure
  <2>2. Unsettled(j, x) = 0 /\ Unsettled(j, x)' = 0 /\ Ahead(j)' =< Ahead(j)
    BY <2>1, <1>a, <1>d DEF Unsettled, Ahead, Extra
  <2>3. CASE written' = written
    BY <2>1, <2>2, <2>3, <1>a, <1>d, <1>e DEF Explained
  <2>4. CASE AddOne(w) /\ Cancelled /\ ~IsMarked(w)
    <3>1. Ahead(j)' = Ahead(j) - 1
      BY <2>1, <2>4 DEF Ahead, Extra, Cancelled
    <3>2. CASE Taken = j /\ w = x
      <4>1. <<j, x>> \notin marked
        BY <2>4, <3>2 DEF IsMarked, HasMarkers
      <4>2. written'[j][x] =< written[j][x] + 1 /\ written'[j][x] \in Nat
        BY <2>1, <2>4, <3>2, <1>a, Adds, IntentParts, <1>c DEF DataType
      <4> QED BY <2>1, <2>2, <3>1, <4>1, <4>2, <1>a, <1>d DEF Explained
    <3>3. CASE ~(Taken = j /\ w = x)
      <4>1. written'[j][x] = written[j][x]
        BY <2>1, <2>4, <3>3, <1>a, Adds
      <4> QED BY <2>1, <2>2, <4>1, <1>a, <1>d, <1>e DEF Explained
    <3> QED BY <3>2, <3>3
  <2> QED BY <1>10, <2>3, <2>4 DEF WriteItemFails, MayFail
<1>11. ASSUME MarkItem  PROVE Explained(j, x)'
  <2>1. /\ marked' = marked \cup {<<Taken, unmarked>>} /\ written' = written
        /\ UNCHANGED <<current, proc, pass, failed, crashes, stops>>
    BY <1>11 DEF MarkItem
  <2>2. Ahead(j)' = Ahead(j)
    BY <2>1 DEF Ahead, Extra
  <2>3. <<j, x>> \notin marked' => <<j, x>> \notin marked /\ Unsettled(j, x) = 0
    BY <2>1 DEF Unsettled
  <2> QED BY <2>1, <2>2, <2>3, <1>a, <1>d, <1>e DEF Explained
<1>12. ASSUME MarkItemFails  PROVE Explained(j, x)'
  <2>1. /\ marked' \in {marked, marked \cup {<<Taken, unmarked>>}} /\ written' = written
        /\ UNCHANGED <<current, proc, pass, crashes, stops>>
        /\ Cancelled /\ ~failed /\ failed'
    BY <1>12, <1>a DEF MarkItemFails, MayFail, PassShape
  <2>2. Ahead(j)' = Ahead(j) - 1
    BY <2>1 DEF Ahead, Extra, Cancelled
  <2>3. <<j, x>> \notin marked' => <<j, x>> \notin marked
    BY <2>1
  <2> QED BY <2>1, <2>2, <2>3, <1>a, <1>d, <1>e DEF Explained
<1>13. ASSUME MarkProcessed  PROVE Explained(j, x)'
  <2>1. written' = written /\ marked' = marked
    BY <1>13 DEF MarkProcessed, Disposed, Derived, tables
  <2>2. Toll(j)' + Unsettled(j, x)' - Ahead(j)' >= Toll(j) + Unsettled(j, x) - Ahead(j)
    BY <1>13, <1>a, <1>b, <1>d, <1>e
    DEF MarkProcessed, Disposed, Derived, Unsettled, Ahead, Taking, Taken, PassShape, DataType, Cancelled, tables
  <2>3. Toll(j)' >= Toll(j)
    BY <1>13, <1>d DEF MarkProcessed, Disposed, Derived
  <2> QED BY <2>1, <2>2, <2>3, <1>a, <1>c, StillExplained
<1>14. ASSUME MarkAttempt  PROVE Explained(j, x)'
  <2>1. written' = written /\ marked' = marked
    BY <1>14 DEF MarkAttempt, Disposed, tables
  <2>2. Toll(j)' + Unsettled(j, x)' - Ahead(j)' >= Toll(j) + Unsettled(j, x) - Ahead(j)
    BY <1>14, <1>a, <1>b, <1>d, <1>e
    DEF MarkAttempt, Disposed, Unsettled, Ahead, Taking, Taken, PassShape, DataType, Cancelled, tables
  <2>3. Toll(j)' >= Toll(j)
    BY <1>14, <1>d DEF MarkAttempt, Disposed
  <2> QED BY <2>1, <2>2, <2>3, <1>a, <1>c, StillExplained
<1>15. ASSUME DispositionFails  PROVE Explained(j, x)'
  <2>1. written' = written /\ marked' = marked
    BY <1>15 DEF DispositionFails, Idle, Returned, Derived, tables
  <2>2. Toll(j)' + Unsettled(j, x)' - Ahead(j)' >= Toll(j) + Unsettled(j, x) - Ahead(j)
    BY <1>15, <1>a, <1>b, <1>d, <1>e
    DEF DispositionFails, Idle, Returned, Derived, Unsettled, Ahead, Taking, Taken, PassShape, DataType, Cancelled, tables
  <2>3. Toll(j)' >= Toll(j)
    BY <1>15, <1>d DEF DispositionFails, Idle, Returned, Derived
  <2> QED BY <2>1, <2>2, <2>3, <1>a, <1>c, StillExplained
<1>16. ASSUME NEW i \in Intent, BackoffEnds(i)  PROVE Explained(j, x)'
  <2>1. written' = written /\ marked' = marked
    BY <1>16 DEF BackoffEnds, worker, handler, tables
  <2>2. Toll(j)' + Unsettled(j, x)' - Ahead(j)' >= Toll(j) + Unsettled(j, x) - Ahead(j)
    BY <1>16, <1>a, <1>b, <1>d, <1>e
    DEF BackoffEnds, worker, handler, Unsettled, Ahead, Taking, Taken, PassShape, DataType, Cancelled, tables
  <2>3. Toll(j)' >= Toll(j)
    BY <1>16, <1>d DEF BackoffEnds, worker, handler
  <2> QED BY <2>1, <2>2, <2>3, <1>a, <1>c, StillExplained
<1>17. ASSUME NEW i \in Intent, Prune(i)  PROVE Explained(j, x)'
  <2>1. written' = written /\ marked' = marked
    BY <1>17 DEF Prune, worker, handler, tables
  <2>2. Toll(j)' + Unsettled(j, x)' - Ahead(j)' >= Toll(j) + Unsettled(j, x) - Ahead(j)
    BY <1>17, <1>a, <1>b, <1>d, <1>e
    DEF Prune, worker, handler, Unsettled, Ahead, Taking, Taken, PassShape, DataType, Cancelled, tables
  <2>3. Toll(j)' >= Toll(j)
    BY <1>17, <1>d DEF Prune, worker, handler
  <2> QED BY <2>1, <2>2, <2>3, <1>a, <1>c, StillExplained
<1>18. ASSUME NEW i \in Intent, Merge(i)  PROVE Explained(j, x)'
  <2>1. written' = written /\ marked' = marked
    BY <1>18 DEF Merge, worker, handler, tables
  <2>2. Toll(j)' + Unsettled(j, x)' - Ahead(j)' >= Toll(j) + Unsettled(j, x) - Ahead(j)
    BY <1>18, <1>a, <1>b, <1>d, <1>e
    DEF Merge, worker, handler, Unsettled, Ahead, Taking, Taken, PassShape, DataType, Cancelled, tables
  <2>3. Toll(j)' >= Toll(j)
    BY <1>18, <1>d DEF Merge, worker, handler
  <2> QED BY <2>1, <2>2, <2>3, <1>a, <1>c, StillExplained
<1>19. ASSUME Stop  PROVE Explained(j, x)'
  <2>1. written' = written /\ marked' = marked
    BY <1>19 DEF Stop, tables, worker, handler, tables
  <2>2. Toll(j)' + Unsettled(j, x)' - Ahead(j)' >= Toll(j) + Unsettled(j, x) - Ahead(j)
    BY <1>19, <1>a, <1>b, <1>d, <1>e
    DEF Stop, tables, worker, handler, Unsettled, Ahead, Taking, Taken, PassShape, DataType, Cancelled, tables
  <2>3. Toll(j)' >= Toll(j)
    BY <1>19, <1>d DEF Stop, tables, worker, handler
  <2> QED BY <2>1, <2>2, <2>3, <1>a, <1>c, StillExplained
<1>20. ASSUME Exit  PROVE Explained(j, x)'
  <2>1. /\ proc = "stopping" /\ proc' = "down" /\ pass # "due"
        /\ UNCHANGED <<written, marked, crashes, stops>>
    BY <1>20 DEF Exit, Gone
  <2>2. Ahead(j) = Extra(j) - 1 /\ Ahead(j)' = 0
    BY <2>1 DEF Ahead, Extra
  <2>3. Unsettled(j, x) = 1 => Extra(j) = 2
    <3>1. Unsettled(j, x) = 1 => Taking /\ Taken = j
      BY DEF Unsettled
    <3>2. Taking => pass \in Export /\ Taken[1] \in Seed
      BY <2>1, <1>a DEF PassShape, DataType
    <3> QED BY <3>1, <3>2 DEF Extra
  <2>4. Toll(j)' + Unsettled(j, x)' - Ahead(j)' >= Toll(j) + Unsettled(j, x) - Ahead(j)
    BY <2>1, <2>2, <2>3, <1>d, <1>e
  <2> QED BY <2>1, <2>4, <1>a, <1>c, <1>d, StillExplained
<1>21. ASSUME Crash  PROVE Explained(j, x)'
  <2>1. written' = written /\ marked' = marked
    BY <1>21 DEF Crash, Gone, Idle, tables
  <2>2. Toll(j)' + Unsettled(j, x)' - Ahead(j)' >= Toll(j) + Unsettled(j, x) - Ahead(j)
    BY <1>21, <1>a, <1>b, <1>d, <1>e
    DEF Crash, Gone, Idle, Unsettled, Ahead, Taking, Taken, PassShape, DataType, Cancelled, tables
  <2>3. Toll(j)' >= Toll(j)
    BY <1>21, <1>d DEF Crash, Gone, Idle
  <2> QED BY <2>1, <2>2, <2>3, <1>a, <1>c, StillExplained
<1>22. ASSUME Start  PROVE Explained(j, x)'
  <2>1. written' = written /\ marked' = marked
    BY <1>22 DEF Start, tables, worker, handler, tables
  <2>2. Toll(j)' + Unsettled(j, x)' - Ahead(j)' >= Toll(j) + Unsettled(j, x) - Ahead(j)
    BY <1>22, <1>a, <1>b, <1>d, <1>e
    DEF Start, tables, worker, handler, Unsettled, Ahead, Taking, Taken, PassShape, DataType, Cancelled, tables
  <2>3. Toll(j)' >= Toll(j)
    BY <1>22, <1>d DEF Start, tables, worker, handler
  <2> QED BY <2>1, <2>2, <2>3, <1>a, <1>c, StillExplained
<1>23. CASE UNCHANGED vars
  BY <1>23, <1>a
  DEF Explained, Toll, Unsettled, Ahead, Extra, Taking, Taken, vars, tables, worker, handler
<1> QED
  BY <1>1, <1>2, <1>3, <1>4, <1>5, <1>6, <1>7, <1>8, <1>9, <1>10, <1>11, <1>12, <1>13,
     <1>14, <1>15, <1>16, <1>17, <1>18, <1>19, <1>20, <1>21, <1>22, <1>23
  DEF Next, Progress, Handle

(* A detection is counted once and once more for each interruption (a      *)
(* crash, or a stop that cancels the worker's pass or outlives a seed      *)
(* pass), however often its handler is retried, its intent derived, pruned *)
(* and brought back.                                                       *)
THEOREM OvercountIsBounded ==
  ASSUME FaultKind \cap {"torn", "marker"} = {}
  PROVE  Spec => []OvercountBounded
<1>1. Init => CountsExplained
  <2> SUFFICES ASSUME Init, NEW i \in Intent, NEW w \in Work(i)  PROVE Explained(i, w)
    BY DEF CountsExplained
  <2>1. DataType /\ Ahead(i) = 0 /\ marked = {} /\ written[i][w] = 0
    BY InitInv, IntentParts DEF OutboxInv, Init, Ahead
  <2>2. Toll(i) \in Nat /\ Unsettled(i, w) \in {0, 1}
    BY <2>1, TollStep DEF Unsettled
  <2> QED BY <2>1, <2>2 DEF Explained
<1>2. OutboxInv /\ CountsExplained /\ [Next]_vars => CountsExplained'
  BY CountStep
<1>3. OutboxInv /\ CountsExplained => OvercountBounded
  <2> SUFFICES ASSUME OutboxInv, CountsExplained, NEW i \in Intent, i[2] = "detector",
                      NEW w \in Work(i)
               PROVE  written[i][w] =< 1 + Interruptions(i[1])
    BY DEF OvercountBounded
  <2>1. Toll(i) = Interruptions(i[1]) /\ Toll(i) \in Nat /\ Ahead(i) \in Nat
    BY TollStep DEF OutboxInv, Toll, Extra, Interruptions
  <2>2. Explained(i, w) /\ Unsettled(i, w) \in {0, 1} /\ written[i][w] \in Nat
    BY IntentParts DEF CountsExplained, Unsettled, OutboxInv, DataType
  <2> QED BY <2>1, <2>2 DEF Explained
<1> QED BY <1>1, <1>2, <1>3, OutboxInvariant, PTL DEF Spec
=============================================================================
