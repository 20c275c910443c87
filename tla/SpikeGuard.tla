----------------------------- MODULE SpikeGuard -----------------------------
(***************************************************************************)
(* Spike protection of one site, the limiter of internal/errors/spike.go:  *)
(* caps per minute on the events of an issue, on those of the site and on  *)
(* the issues it creates, decided before the issue of the event is looked  *)
(* up.  Events come one by one from the flush; one whose apply fails comes *)
(* again and is counted again.                                             *)
(***************************************************************************)
EXTENDS Integers, FiniteSets, FiniteSetsExt

CONSTANTS
  Fingerprint,
  IssueCap, SiteCap, NewIssueCap,   \* 0 is off
  SampleN,          \* past a cap one event in so many is kept
  MaxTrackedFingerprints,
  MaxWindowEvents   \* bound on the events of a window

ASSUME SpikeAssumption ==
  /\ {IssueCap, SiteCap, NewIssueCap, MaxTrackedFingerprints, MaxWindowEvents} \subseteq Nat
  /\ SampleN \in Nat \ {0} /\ IsFiniteSet(Fingerprint)

VARIABLES
  siteN,     \* events of the site in the window
  issueN,    \* events of a fingerprint in the window, while it is tracked
  exemptN,   \* admissions charged as new issues or regressions
  denied,    \* fingerprints refused by the cap on new issues
  issueOf,   \* the issue of a fingerprint: none, open or resolved
  cachedIssue,   \* fingerprints whose issue is cached
  spikeTally     \* per fingerprint of the window: kept, thinned for the
             \* site, admitted as exempt, refused as new, issues created

spikeVars == <<siteN, issueN, exemptN, denied, issueOf, cachedIssue, spikeTally>>

NoTally == [kept |-> 0, thinned |-> 0, exempt |-> 0, refused |-> 0, created |-> 0]

FreshWindow ==
  /\ siteN = 0 /\ issueN = [f \in Fingerprint |-> 0]
  /\ exemptN = 0 /\ denied = {} /\ spikeTally = [f \in Fingerprint |-> NoTally]

SpikeInit ==
  /\ FreshWindow
  /\ issueOf = [f \in Fingerprint |-> "none"] /\ cachedIssue = {}

-----------------------------------------------------------------------------
Tracked == {f \in Fingerprint : issueN[f] > 0}

\* count: the counters after an event of f.
CountedIssues(f) ==
  IF f \in Tracked \/ Cardinality(Tracked) < MaxTrackedFingerprints
  THEN [issueN EXCEPT ![f] = @ + 1] ELSE issueN

Thinned(n, cap) == (n - cap) % SampleN # 0

FairShare(keys) == Max({SiteCap \div Max({keys, 1}), 1})

\* What the caps on rates say of an event of f, `counts` being the counters
\* with it.
OverIssue(f, counts) == IssueCap > 0 /\ counts[f] > IssueCap

\* Mutant: past the cap everything is thinned.
OverSiteBlanket(f, counts) == ~OverIssue(f, counts) /\ SiteCap > 0 /\ siteN + 1 > SiteCap

OverSite(f, counts) ==
  LET keys == Cardinality({g \in Fingerprint : counts[g] > 0})
  IN /\ ~OverIssue(f, counts)
     /\ SiteCap > 0 /\ siteN + 1 > SiteCap
     /\ ~(siteN + 1 =< 2 * SiteCap /\ counts[f] > 0 /\ counts[f] =< FairShare(keys))

\* The cache is asked, and what it does not know is exempt.
SpikeExempt(f) == f \notin cachedIssue \/ issueOf[f] = "resolved"

\* Mutant: a new fingerprint under the caps is let through unasked.
AskedIfOver(f, over) == over

Asked(f, over) == over \/ f \notin Tracked

Note(f, changes) ==
  spikeTally' = [spikeTally EXCEPT ![f] = [x \in DOMAIN NoTally |->
             @[x] + IF x \in changes THEN 1 ELSE 0]]

\* The event goes on to its issue, which is found or made, or that fails.
Apply(f, changes) ==
  \/ /\ issueOf' = [issueOf EXCEPT ![f] = "open"] /\ cachedIssue' = cachedIssue \cup {f}
     /\ Note(f, changes \cup {"kept"} \cup IF issueOf[f] = "none" THEN {"created"} ELSE {})
  \/ Note(f, changes) /\ UNCHANGED <<issueOf, cachedIssue>>

Drop(f, changes) == Note(f, changes) /\ UNCHANGED <<issueOf, cachedIssue>>

\* Mutant: an admission past the cap is refused, the fingerprint is not.
DeniedNone(f) == denied

Denied(f) ==
  denied \cup IF Cardinality(denied) < MaxTrackedFingerprints THEN {f} ELSE {}

SpikeCheck(f) ==
  LET counts == CountedIssues(f)
      byIssue == OverIssue(f, counts) /\ Thinned(counts[f], IssueCap)
      bySite == OverSite(f, counts) /\ Thinned(siteN + 1, SiteCap)
  IN /\ siteN < MaxWindowEvents
     /\ siteN' = siteN + 1 /\ issueN' = counts
     /\ \/ f \in denied /\ Drop(f, {"refused"}) /\ UNCHANGED <<exemptN, denied>>
        \/ /\ f \notin denied /\ Asked(f, byIssue \/ bySite) /\ SpikeExempt(f)
           /\ \/ NewIssueCap = 0 /\ Apply(f, {"exempt"}) /\ UNCHANGED <<exemptN, denied>>
              \/ /\ NewIssueCap > 0 /\ exemptN' = exemptN + 1
                 /\ \/ exemptN < NewIssueCap /\ Apply(f, {"exempt"}) /\ UNCHANGED denied
                    \/ exemptN >= NewIssueCap /\ denied' = Denied(f) /\ Drop(f, {"refused"})
        \/ /\ f \notin denied /\ ~(Asked(f, byIssue \/ bySite) /\ SpikeExempt(f))
           /\ \/ ~byIssue /\ ~bySite /\ Apply(f, {})
              \/ byIssue /\ Drop(f, {})
              \/ bySite /\ Drop(f, {"thinned"})
           /\ UNCHANGED <<exemptN, denied>>

RollWindow ==
  /\ siteN > 0
  /\ siteN' = 0 /\ issueN' = [f \in Fingerprint |-> 0]
  /\ exemptN' = 0 /\ denied' = {} /\ spikeTally' = [f \in Fingerprint |-> NoTally]
  /\ UNCHANGED <<issueOf, cachedIssue>>

\* The cache loses an entry; an operator resolves an issue.
EvictIssue(f) ==
  /\ f \in cachedIssue /\ cachedIssue' = cachedIssue \ {f}
  /\ UNCHANGED <<siteN, issueN, exemptN, denied, issueOf, spikeTally>>

ResolveIssue(f) ==
  /\ issueOf[f] = "open" /\ issueOf' = [issueOf EXCEPT ![f] = "resolved"]
  /\ UNCHANGED <<siteN, issueN, exemptN, denied, cachedIssue, spikeTally>>

SpikeNext ==
  \/ \E f \in Fingerprint : SpikeCheck(f) \/ EvictIssue(f) \/ ResolveIssue(f)
  \/ RollWindow

SpikeSpec == SpikeInit /\ [][SpikeNext]_spikeVars

-----------------------------------------------------------------------------
SpikeTypeOK ==
  /\ siteN \in 0..MaxWindowEvents /\ issueN \in [Fingerprint -> 0..MaxWindowEvents]
  /\ exemptN \in 0..MaxWindowEvents /\ denied \subseteq Fingerprint
  /\ issueOf \in [Fingerprint -> {"none", "open", "resolved"}] /\ cachedIssue \subseteq Fingerprint
  /\ spikeTally \in [Fingerprint -> [DOMAIN NoTally -> 0..MaxWindowEvents]]

(* "Otherwise a producer varying the fingerprint on every event walks      *)
(* around every other cap": in a window no more issues are made than the   *)
(* cap on new ones says, through applies that failed and maps that are     *)
(* full, and nothing is refused as new before the cap is spent.            *)
NewIssuesBounded ==
  NewIssueCap > 0 =>
    /\ MapThenSumSet(LAMBDA f : spikeTally[f].created, Fingerprint) =< NewIssueCap
    /\ (\E f \in Fingerprint : spikeTally[f].refused > 0) => exemptN > NewIssueCap

(* "One flood issue cannot spend the whole site budget and starve the      *)
(* steady ones": up to twice the cap, of an issue within its share of it   *)
(* no event is thinned for the site, whichever came before.                *)
SteadyKept ==
  \A f \in Tracked :
    siteN =< 2 * SiteCap /\ issueN[f] =< FairShare(Cardinality(Tracked)) => spikeTally[f].thinned = 0

(* Of an issue past its cap one in SampleN is kept, besides what was       *)
(* admitted as new or as a regression.                                     *)
FloodThinned ==
  \A f \in Tracked : IssueCap > 0 /\ issueN[f] > IssueCap =>
    spikeTally[f].kept =< IssueCap + (issueN[f] - IssueCap) \div SampleN + spikeTally[f].exempt

SpikeSound == NewIssuesBounded /\ SteadyKept /\ FloodThinned
=============================================================================
