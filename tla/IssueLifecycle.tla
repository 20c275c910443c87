--------------------------- MODULE IssueLifecycle ---------------------------
(***************************************************************************)
(* What an error event does to its issue, internal/errors/issues.go: the   *)
(* status of the issue row, the copy of it in the cache entry of the       *)
(* event's group, the operator who sets it, and the merges that send an    *)
(* event to another issue.                                                 *)
(*                                                                         *)
(* One site.  A group of events is its issue.  Events are resolved one at  *)
(* a time, by the error buffer; one operator works beside them.  A copy of *)
(* the status stands for the two flags of a cache entry.  Each statement   *)
(* of the database takes effect at once, a merge is seen by the next       *)
(* lookup (IssueMerges), and counts, titles and the spike itself are left  *)
(* out.                                                                    *)
(***************************************************************************)
EXTENDS Integers, FiniteSets

CONSTANTS Group, NoGroup

ASSUME LifecycleAssumption == NoGroup \notin Group

VARIABLES
  status,    \* of the latest issue row, or "none"
  cached,    \* of the cache entry, or "none"
  mergeOf,   \* the target of the active merges
  event,     \* the event being resolved
  operator,  \* the status change under way
  strayed    \* groups whose entry may have missed a change of the status

lifecycleVars == <<status, cached, mergeOf, event, operator, strayed>>

Set == {"open", "resolved", "ignored"}
NoEvent == [at |-> "idle", group |-> NoGroup, target |-> NoGroup, seen |-> "none",
            reopened |-> FALSE, disturbed |-> FALSE]
NoChange == [at |-> "idle", group |-> NoGroup, to |-> "none", disturbed |-> FALSE]

LifecycleInit ==
  /\ status = [g \in Group |-> "none"] /\ cached = [g \in Group |-> "none"]
  /\ mergeOf = [g \in Group |-> NoGroup]
  /\ event = NoEvent /\ operator = NoChange /\ strayed = {}

-----------------------------------------------------------------------------
Changing(g) == operator.at # "idle" /\ operator.group = g
Touches(g) == event.at # "idle" /\ g \in {event.group, event.target}

Strays(g) == strayed' = strayed \cup {g}
Mends(g) == strayed' = strayed \ {g}

\* The cache entry is read; a miss, a failed read and a spoiled entry are one.
EventArrives(g) ==
  /\ event.at = "idle"
  /\ \E hit \in {TRUE, FALSE} :
       /\ hit => cached[g] # "none"
       /\ event' = [NoEvent EXCEPT !.at = IF hit THEN "hit" ELSE "miss", !.group = g,
              !.seen = IF hit THEN cached[g] ELSE "none",
              !.disturbed = Changing(g) \/ (hit /\ g \in strayed)]
  /\ operator' = [operator EXCEPT !.disturbed = @ \/ Changing(g)]
  /\ UNCHANGED <<status, cached, mergeOf, strayed>>

Merged(g) == mergeOf[g] # NoGroup
ToTarget == [event EXCEPT !.at = "target", !.target = mergeOf[event.group],
               !.disturbed = @ \/ Changing(mergeOf[event.group])]

\* ResolveMerged on a hit.
HitRoutes ==
  /\ event.at = "hit"
  /\ event' = IF Merged(event.group) THEN ToTarget ELSE [event EXCEPT !.at = "bump"]
  /\ operator' = [operator EXCEPT !.disturbed = @ \/ Changing(mergeOf[event.group])]
  /\ UNCHANGED <<status, cached, mergeOf, strayed>>

FindIssue ==
  /\ event.at = "miss"
  /\ event' = IF status[event.group] = "none" THEN [event EXCEPT !.at = "create"]
              ELSE [event EXCEPT !.at = "found", !.seen = status[event.group]]
  /\ UNCHANGED <<status, cached, mergeOf, operator, strayed>>

\* ResolveMerged on a miss: a merged issue is cached without its flags.
FoundRoutes ==
  /\ event.at = "found"
  /\ IF Merged(event.group)
     THEN /\ event' = ToTarget
          /\ cached' = [cached EXCEPT ![event.group] = "open"] /\ Strays(event.group)
     ELSE event' = [event EXCEPT !.at = "bump"] /\ UNCHANGED <<cached, strayed>>
  /\ operator' = [operator EXCEPT !.disturbed = @ \/ Changing(mergeOf[event.group])]
  /\ UNCHANGED <<status, mergeOf>>

\* Mutant: an ignored issue is reopened as well.
BumpedAlways(was) == "open"

Bumped(was) == IF was = "resolved" THEN "open" ELSE was

\* bumpIssue, one statement; its answer may be lost.
BumpIssue ==
  LET g == event.group IN
  /\ event.at = "bump"
  /\ status' = [status EXCEPT ![g] = Bumped(@)]
  /\ \/ /\ event' = [event EXCEPT !.at = "store", !.reopened = status[g] = "resolved"]
        /\ UNCHANGED strayed
     \/ event' = NoEvent /\ Strays(g)
  /\ UNCHANGED <<cached, mergeOf, operator>>

\* Mutant: the entry that comes off a hit keeps its flags.
StoredKept(seen) == seen

Stored(seen) == IF seen = "resolved" THEN "open" ELSE seen

\* The notices go out, on what was seen, and the entry is written back; a
\* failure to write it is not looked at.
StoreEntry ==
  LET g == event.group IN
  /\ event.at = "store" /\ event' = NoEvent
  /\ \/ /\ cached' = [cached EXCEPT ![g] = Stored(event.seen)]
        /\ IF event.disturbed THEN Strays(g) ELSE Mends(g)
     \/ UNCHANGED cached /\ Strays(g)
  /\ UNCHANGED <<status, mergeOf, operator>>

\* create; its answer may be lost.
CreateIssue ==
  LET g == event.group IN
  /\ event.at = "create"
  /\ status' = [status EXCEPT ![g] = "open"]
  /\ event' \in {NoEvent, [event EXCEPT !.at = "store", !.seen = "open"]}
  /\ UNCHANGED <<cached, mergeOf, operator, strayed>>

\* attributeMerged: the target's row, and then its bump; the target's own
\* cache entry is not written.
ReadTarget ==
  /\ event.at = "target"
  /\ event' = [event EXCEPT !.at = "bumpTarget", !.seen = status[event.target]]
  /\ UNCHANGED <<status, cached, mergeOf, operator, strayed>>

BumpTarget ==
  LET t == event.target IN
  /\ event.at = "bumpTarget"
  /\ status' = [status EXCEPT ![t] = Bumped(@)]
  /\ \/ event' = [event EXCEPT !.at = "attributed", !.reopened = status[t] = "resolved"]
     \/ event' = NoEvent
  /\ IF status[t] = "resolved" THEN Strays(t) ELSE UNCHANGED strayed
  /\ UNCHANGED <<cached, mergeOf, operator>>

TargetTold ==
  /\ event.at = "attributed" /\ event' = NoEvent
  /\ UNCHANGED <<status, cached, mergeOf, operator, strayed>>

\* A statement fails with no effect; the buffer retries the event.
EventFails ==
  /\ event.at \notin {"idle", "hit", "found", "store", "attributed"}
  /\ event' = NoEvent
  /\ UNCHANGED <<status, cached, mergeOf, operator, strayed>>

-----------------------------------------------------------------------------
\* UpdateStatus writes the row, and then marks the cache entry it finds.
UpdateStatus(g, to) ==
  /\ operator.at = "idle" /\ status[g] # "none"
  /\ status' = [status EXCEPT ![g] = to]
  /\ operator' = [at |-> "mark", group |-> g, to |-> to, disturbed |-> Touches(g)]
  /\ event' = [event EXCEPT !.disturbed = @ \/ Touches(g)]
  /\ UNCHANGED <<cached, mergeOf, strayed>>

\* Best effort: the row or the entry may not be readable.
ReadEntry ==
  LET g == operator.group IN
  /\ operator.at = "mark"
  /\ \/ /\ cached[g] # "none" /\ operator' = [operator EXCEPT !.at = "set"]
        /\ UNCHANGED strayed
     \/ /\ cached[g] = "none" /\ operator' = NoChange /\ UNCHANGED strayed
     \/ operator' = NoChange /\ Strays(g)
  /\ UNCHANGED <<status, cached, mergeOf, event>>

MarkCachedStatus ==
  LET g == operator.group IN
  /\ operator.at = "set" /\ operator' = NoChange
  /\ \/ /\ cached' = [cached EXCEPT ![g] = operator.to]
        /\ IF operator.disturbed THEN Strays(g) ELSE Mends(g)
     \/ UNCHANGED cached /\ Strays(g)
  /\ UNCHANGED <<status, mergeOf, event>>

MergeGroups(g, t) ==
  /\ g # t /\ status[g] # "none" /\ status[t] # "none"
  /\ ~Merged(g) /\ ~Merged(t) /\ \A o \in Group : mergeOf[o] # g
  /\ mergeOf' = [mergeOf EXCEPT ![g] = t]
  /\ UNCHANGED <<status, cached, event, operator, strayed>>

UnmergeGroup(g) ==
  /\ Merged(g) /\ mergeOf' = [mergeOf EXCEPT ![g] = NoGroup]
  /\ UNCHANGED <<status, cached, event, operator, strayed>>

\* The key-value store loses an entry.
EntryLost(g) ==
  /\ cached[g] # "none" /\ cached' = [cached EXCEPT ![g] = "none"] /\ Mends(g)
  /\ UNCHANGED <<status, mergeOf, event, operator>>

\* The process dies between the row and the entry.
LifecycleCrash ==
  /\ event' = NoEvent /\ operator' = NoChange
  /\ strayed' = strayed \cup {g \in Group : (event.at = "store" /\ event.group = g) \/ Changing(g)}
  /\ UNCHANGED <<status, cached, mergeOf>>

LifecycleNext ==
  \/ \E g \in Group : EventArrives(g) \/ UnmergeGroup(g) \/ EntryLost(g)
  \/ HitRoutes \/ FindIssue \/ FoundRoutes \/ BumpIssue \/ StoreEntry \/ CreateIssue
  \/ ReadTarget \/ BumpTarget \/ TargetTold \/ EventFails
  \/ \E g \in Group, to \in Set : UpdateStatus(g, to)
  \/ ReadEntry \/ MarkCachedStatus
  \/ \E g, t \in Group : MergeGroups(g, t)
  \/ LifecycleCrash

LifecycleSpec == LifecycleInit /\ [][LifecycleNext]_lifecycleVars

-----------------------------------------------------------------------------
LifecycleTypeOK ==
  /\ status \in [Group -> Set \cup {"none"}] /\ cached \in [Group -> Set \cup {"none"}]
  /\ mergeOf \in [Group -> Group \cup {NoGroup}]
  /\ event.at \in {"idle", "hit", "miss", "found", "create", "bump", "store", "target",
                   "bumpTarget", "attributed"}
  /\ operator.at \in {"idle", "mark", "set"} /\ strayed \subseteq Group

(* The cache entry has the status of the row, whatever order events,       *)
(* changes of the status and merges come in, but for the five ways in which*)
(* the code lets it stray: a change that overlaps an event on its way, an  *)
(* entry or an answer that is not written or not heard, a crash between    *)
(* the two, a merged issue looked up with no entry, and an event that      *)
(* reopens the target it was merged into.                                  *)
EntryFollowsRow ==
  \A g \in Group \ strayed :
    ~Touches(g) /\ ~Changing(g) => cached[g] \in {"none", status[g]}

(* A regression is told of exactly when the event has reopened the issue,  *)
(* and an ignored issue is judged as ignored, but for an entry that had    *)
(* strayed and for a change that came in between.                          *)
ToldAsItIs ==
  event.at \in {"store", "attributed"} /\ ~event.disturbed =>
    /\ event.reopened <=> event.seen = "resolved"
    /\ event.at = "store" =>
         (event.seen = "ignored" <=> status[event.group] = "ignored")

LifecycleSound == EntryFollowsRow /\ ToldAsItIs
=============================================================================
