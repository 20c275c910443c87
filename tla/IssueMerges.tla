---------------------------- MODULE IssueMerges -----------------------------
(***************************************************************************)
(* Merging issues, internal/errors/merge.go: a table of active merges that *)
(* operators write under a lock of the site, and a cached copy of it that  *)
(* the ingest path and the pages read.                                     *)
(*                                                                         *)
(* One site, whose issues all exist.  The revision of the cache is whether *)
(* a fetch in progress is current: an invalidation makes every fetch that  *)
(* has begun outdated.  Assignments, which no merge reads, are left out.   *)
(***************************************************************************)
EXTENDS Integers, FiniteSets

CONSTANTS
  Issue, NoIssue,   \* the issues of the site, and no issue
  Merger,           \* requests that merge or unmerge
  Lookup,           \* callers of ResolveMerged
  MaxMergeDepth,    \* maxMergeDepth
  MergeFault        \* what the store may fail at: "read", "put", "answer"

ASSUME MergeAssumption ==
  /\ NoIssue \notin Issue /\ MaxMergeDepth \in Nat
  /\ MergeFault \subseteq {"read", "put", "answer"}

VARIABLES
  merged,      \* the table: the target of each active merge
  mergeCache,  \* the cached copy, or Unfetched
  merging,     \* what each request is at
  lookup,      \* what each lookup has read, and whether its fetch is current
  mergeDoubt   \* a write whose answer was lost since the last invalidation

mergeVars == <<merged, mergeCache, merging, lookup, mergeDoubt>>

Unfetched == [i \in {} |-> NoIssue]
NoMerges == [i \in Issue |-> NoIssue]
NoRequest == [at |-> "idle", source |-> NoIssue, target |-> NoIssue]
NoLookup == [at |-> "idle", read |-> NoMerges, current |-> FALSE]

MergeInit ==
  /\ merged = NoMerges /\ mergeCache = Unfetched
  /\ merging = [m \in Merger |-> NoRequest]
  /\ lookup = [l \in Lookup |-> NoLookup]
  /\ mergeDoubt = FALSE

-----------------------------------------------------------------------------
\* Where n links of a map lead.
Hops(merges, i) ==
  LET hop[n \in 0..MaxMergeDepth] ==
        IF n = 0 THEN i
        ELSE IF merges[hop[n - 1]] = NoIssue THEN hop[n - 1] ELSE merges[hop[n - 1]]
  IN hop

\* resolveChain: the end of the chain, and whether it ends within the limit;
\* on a cycle it does not.
Final(merges, i) == Hops(merges, i)[MaxMergeDepth]
Ends(merges, i) == merges[Final(merges, i)] = NoIssue

Invalidate ==
  /\ mergeCache' = Unfetched
  /\ lookup' = [l \in Lookup |-> [lookup[l] EXCEPT !.current = FALSE]]
  /\ mergeDoubt' = FALSE

RequestAt(m, where) == merging' = [merging EXCEPT ![m].at = where]
RequestOver(m) == merging' = [merging EXCEPT ![m] = NoRequest]

\* Mutant: requests of a site validate side by side.
SiteFreeUnlocked == TRUE

SiteFree == \A m \in Merger : merging[m].at = "idle"

\* MergeIssues up to its own reading of the table.
MergeIssues(m, source, target) ==
  /\ merging[m].at = "idle" /\ SiteFree /\ source # target
  /\ merging' = [merging EXCEPT ![m] = [at |-> "merge", source |-> source, target |-> target]]
  /\ Invalidate
  /\ UNCHANGED merged

\* Mutant: the chains that already end at the source are not looked at.
DepthAllowedOwn(probe, source) == Ends(probe, source)

DepthAllowed(probe, source) == \A i \in Issue : Ends(probe, i)

MergeAllowed(source, target) ==
  /\ merged[source] = NoIssue
  /\ Ends(merged, target) /\ Final(merged, target) # source
  /\ DepthAllowed([merged EXCEPT ![source] = Final(merged, target)], source)

MergeValidated(m) ==
  /\ merging[m].at = "merge"
  /\ \/ /\ MergeAllowed(merging[m].source, merging[m].target)
        /\ merging' = [merging EXCEPT ![m].at = "write",
                                      ![m].target = Final(merged, merging[m].target)]
     \/ /\ \/ ~MergeAllowed(merging[m].source, merging[m].target)
           \/ "read" \in MergeFault
        /\ RequestOver(m)
  /\ UNCHANGED <<merged, mergeCache, lookup, mergeDoubt>>

\* UnmergeIssue reads the table and refuses an issue that is not merged.
UnmergeIssue(m, source) ==
  /\ merging[m].at = "idle" /\ SiteFree /\ merged[source] # NoIssue
  /\ merging' = [merging EXCEPT ![m] = [at |-> "write", source |-> source, target |-> NoIssue]]
  /\ UNCHANGED <<merged, mergeCache, lookup, mergeDoubt>>

PutMerge(m) ==
  /\ merging[m].at = "write"
  /\ \/ /\ merged' = [merged EXCEPT ![merging[m].source] = merging[m].target]
        /\ RequestAt(m, "written") /\ UNCHANGED mergeDoubt
     \/ /\ "put" \in MergeFault
        /\ RequestOver(m) /\ UNCHANGED <<merged, mergeDoubt>>
     \/ /\ "answer" \in MergeFault
        /\ merged' = [merged EXCEPT ![merging[m].source] = merging[m].target]
        /\ RequestOver(m) /\ mergeDoubt' = TRUE
  /\ UNCHANGED <<mergeCache, lookup>>

MergeAnswered(m) ==
  /\ merging[m].at = "written"
  /\ Invalidate /\ RequestOver(m)
  /\ UNCHANGED merged

-----------------------------------------------------------------------------
\* siteMerges on a miss: the table is read outside the cache's mutex.
FetchMerges(l) ==
  /\ lookup[l].at = "idle" /\ mergeCache = Unfetched
  /\ lookup' = [lookup EXCEPT ![l] = [at |-> "fetched", read |-> merged, current |-> TRUE]]
  /\ UNCHANGED <<merged, mergeCache, merging, mergeDoubt>>

\* Mutant: what was read is cached although the cache was invalidated since.
FetchCurrentAlways(l) == TRUE

FetchCurrent(l) == lookup[l].current

CacheMerges(l) ==
  /\ lookup[l].at = "fetched"
  /\ mergeCache' = IF FetchCurrent(l) THEN lookup[l].read ELSE mergeCache
  /\ lookup' = [lookup EXCEPT ![l] = NoLookup]
  /\ UNCHANGED <<merged, merging, mergeDoubt>>

\* mergeCacheTTL has passed, or the cache holds too many sites.
MergeCacheExpires ==
  /\ mergeCache # Unfetched
  /\ mergeCache' = Unfetched
  /\ UNCHANGED <<merged, merging, lookup, mergeDoubt>>

MergeNext ==
  \/ \E m \in Merger :
       \/ \E source, target \in Issue : MergeIssues(m, source, target)
       \/ \E source \in Issue : UnmergeIssue(m, source)
       \/ MergeValidated(m) \/ PutMerge(m) \/ MergeAnswered(m)
  \/ \E l \in Lookup : FetchMerges(l) \/ CacheMerges(l)
  \/ MergeCacheExpires

MergeSpec == MergeInit /\ [][MergeNext]_mergeVars

-----------------------------------------------------------------------------
MergeTypeOK ==
  /\ merged \in [Issue -> Issue \cup {NoIssue}]
  /\ mergeCache = Unfetched \/ mergeCache \in [Issue -> Issue \cup {NoIssue}]
  /\ \A m \in Merger : /\ merging[m].at \in {"idle", "merge", "write", "written"}
                       /\ merging[m].source \in Issue \cup {NoIssue}
                       /\ merging[m].target \in Issue \cup {NoIssue}
  /\ \A l \in Lookup : lookup[l].at \in {"idle", "fetched"} /\ lookup[l].current \in BOOLEAN
  /\ mergeDoubt \in BOOLEAN

(* "No cycles, chains bounded by maxMergeDepth": every issue resolves to   *)
(* one that is not merged away, whatever requests ran side by side and     *)
(* whichever writes were answered.                                         *)
MergesAreAForest == \A i \in Issue : Ends(merged, i)

(* A merge or an unmerge that was answered is seen by every later lookup:  *)
(* the cache is the table, except while a request has written and not yet  *)
(* invalidated, or when a write lost its answer, which invalidates nothing.*)
MergeCacheFresh ==
  mergeCache = Unfetched \/ mergeCache = merged \/ mergeDoubt
    \/ \E m \in Merger : merging[m].at = "written"

MergesSound == MergesAreAForest /\ MergeCacheFresh
=============================================================================
