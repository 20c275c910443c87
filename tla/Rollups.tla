------------------------------- MODULE Rollups -------------------------------
(***************************************************************************)
(* The rollups of jobs/rollups.go and the loops that run them              *)
(* (jobs/scheduler.go): the summary of an hour, cleared and inserted over  *)
(* a window in two statements, with the raw events and the summary of a    *)
(* session, whose early events retention deletes under it.  The daily      *)
(* rollup is the hourly one over days.                                     *)
(*                                                                         *)
(* An event reaches the table at most MaxLate hours after it happened, and *)
(* retention keeps more than that.                                         *)
(***************************************************************************)
EXTENDS Integers, FiniteSets

CONSTANTS
  MaxHour,       \* bound on the hours
  MaxRollEvents, \* bound on the events
  MaxLate,       \* hours an event may be late
  RetainHours    \* the raw retention of events

ASSUME RollAssumption == {MaxHour, MaxRollEvents, MaxLate, RetainHours} \subseteq Nat /\ MaxLate < RetainHours

VARIABLES
  rollHour,      \* the hour it is
  rollEver,      \* every event stored: its number and hour
  rollRaw,       \* the events retention has left
  hourly,        \* stats_hourly: the count of an hour, 0 where there is no row
  hourlyAt,      \* the hourly job: the hour it cleared its window at, -1 before and after
  rollSettled,   \* the events a rollup succeeded within two hours of, and none failed since
  summary,       \* the session's row
  sessionRead,   \* what the session job read before its transaction
  rollCounted    \* the events the row has ever counted

rollVars == <<rollHour, rollEver, rollRaw, hourly, hourlyAt, rollSettled, summary, sessionRead, rollCounted>>

RollHours == 0..MaxHour
RollEvent == [no : 1..MaxRollEvents, at : RollHours]
NoSummary == [first |-> -1, last |-> -1, events |-> 0]
NotReading == {}

RollInit ==
  /\ rollHour = 0 /\ rollEver = {} /\ rollRaw = {}
  /\ hourly = [h \in RollHours |-> 0] /\ hourlyAt = -1 /\ rollSettled = {}
  /\ summary = NoSummary /\ sessionRead = NotReading /\ rollCounted = {}

-----------------------------------------------------------------------------
NextHour ==
  /\ rollHour < MaxHour /\ rollHour' = rollHour + 1
  /\ UNCHANGED <<rollEver, rollRaw, hourly, hourlyAt, rollSettled, summary, sessionRead, rollCounted>>

\* The buffer stores an event of the session, maybe a late one.
StoreLate ==
  /\ Cardinality(rollEver) < MaxRollEvents
  /\ \E at \in RollHours :
       /\ at =< rollHour /\ rollHour - at =< MaxLate
       /\ rollEver' = rollEver \cup {[no |-> Cardinality(rollEver) + 1, at |-> at]}
       /\ rollRaw' = rollRaw \cup {[no |-> Cardinality(rollEver) + 1, at |-> at]}
  /\ UNCHANGED <<rollHour, hourly, hourlyAt, rollSettled, summary, sessionRead, rollCounted>>

RollCleanup ==
  /\ rollRaw' = {e \in rollRaw : rollHour - e.at =< RetainHours}
  /\ UNCHANGED <<rollHour, rollEver, hourly, hourlyAt, rollSettled, summary, sessionRead, rollCounted>>

-----------------------------------------------------------------------------
\* Mutant: the window begins with the hour before.
HourWindowShort(hour) == {h \in RollHours : hour - 1 =< h /\ h =< hour}

\* From two hours before this one to its end.
HourWindow(hour) == {h \in RollHours : hour - 2 =< h /\ h =< hour}

\* Mutant: the engine is left to collapse the rows of an hour.
ClearedByMerge(h) == hourly[h]

Cleared(h) == IF h \in HourWindow(rollHour) THEN 0 ELSE hourly[h]

\* The DELETE; its answer may be lost.
ClearWindow ==
  /\ hourlyAt = -1 /\ hourlyAt' = rollHour
  /\ hourly' = [h \in RollHours |-> Cleared(h)]
  /\ rollSettled' = {e \in rollSettled : e.at < rollHour - 2}
  /\ UNCHANGED <<rollHour, rollEver, rollRaw, summary, sessionRead, rollCounted>>

\* The INSERT: rows of the hours of the window that have events.
Filled(h) == IF h \in HourWindow(hourlyAt) THEN hourly[h] + Cardinality({e \in rollRaw : e.at = h}) ELSE hourly[h]

FillWindow ==
  /\ hourlyAt # -1 /\ hourlyAt' = -1
  /\ hourly' = [h \in RollHours |-> Filled(h)]
  /\ rollSettled' = rollSettled \cup {e \in rollRaw : e.at >= hourlyAt - 2 /\ e.at =< hourlyAt}
  /\ UNCHANGED <<rollHour, rollEver, rollRaw, summary, sessionRead, rollCounted>>

\* The INSERT fails, or the process dies before it.
FailWindow ==
  /\ hourlyAt # -1 /\ hourlyAt' = -1
  /\ UNCHANGED <<rollHour, rollEver, rollRaw, hourly, rollSettled, summary, sessionRead, rollCounted>>

-----------------------------------------------------------------------------
\* RunSessionRollup reads the raw events of the session, when one is recent.
ReadRawSession ==
  /\ sessionRead = NotReading /\ \E e \in rollRaw : e.at = rollHour
  /\ sessionRead' = rollRaw
  /\ UNCHANGED <<rollHour, rollEver, rollRaw, hourly, hourlyAt, rollSettled, summary, rollCounted>>

FirstAt(events) == CHOOSE at \in {e.at : e \in events} : \A e \in events : at =< e.at
LastAt(events) == CHOOSE at \in {e.at : e \in events} : \A e \in events : at >= e.at

\* Mutant: the row is computed from what is left.
EntryExpiredNever == FALSE

\* Retention has removed the entry event.
EntryExpired == summary # NoSummary /\ summary.first < FirstAt(sessionRead)

\* Mutant: the events at the watermark count again.
NewerOrAt == {e \in sessionRead : e.at >= summary.last}

\* The events newer than the row's watermark.
Newer == {e \in sessionRead : e.at > summary.last}

\* The transaction that replaces the row, or leaves it.
WriteSession ==
  /\ sessionRead # NotReading /\ sessionRead' = NotReading
  /\ \/ UNCHANGED <<summary, rollCounted>>
     \/ /\ ~EntryExpired
        /\ summary' = [first |-> FirstAt(sessionRead), last |-> LastAt(sessionRead), events |-> Cardinality(sessionRead)]
        /\ rollCounted' = rollCounted \cup sessionRead
     \/ /\ EntryExpired /\ Newer # {}
        /\ summary' = [first |-> summary.first, last |-> LastAt(sessionRead), events |-> summary.events + Cardinality(Newer)]
        /\ rollCounted' = rollCounted \cup Newer
  /\ UNCHANGED <<rollHour, rollEver, rollRaw, hourly, hourlyAt, rollSettled>>

RollNext ==
  \/ NextHour \/ StoreLate \/ RollCleanup \/ ClearWindow \/ FillWindow \/ FailWindow \/ ReadRawSession \/ WriteSession

RollSpec == RollInit /\ [][RollNext]_rollVars

-----------------------------------------------------------------------------
RollTypeOK ==
  /\ rollHour \in RollHours /\ rollEver \subseteq RollEvent /\ rollRaw \subseteq rollEver
  /\ hourly \in [RollHours -> 0..MaxRollEvents] /\ hourlyAt \in RollHours \cup {-1} /\ rollSettled \subseteq rollEver
  /\ summary \in [first : -1..MaxHour, last : -1..MaxHour, events : 0..MaxRollEvents]
  /\ sessionRead \subseteq rollEver /\ rollCounted \subseteq rollEver

(* An hour's row never counts an event twice, and an event that a rollup   *)
(* succeeded within two hours of stays counted until a later one fails.    *)
HourlyExact ==
  \A h \in RollHours :
    /\ hourly[h] =< Cardinality({e \in rollEver : e.at = h})
    /\ hourly[h] >= Cardinality({e \in rollSettled : e.at = h})

(* A session's row counts each event once, and still counts what retention *)
(* has deleted since.                                                      *)
SummaryExact == summary.events = Cardinality(rollCounted)

RollupsSound == HourlyExact /\ SummaryExact
=============================================================================
