---------------------------- MODULE SiteRegistry ----------------------------
(***************************************************************************)
(* Sites and who manages them, internal/sites/sites.go: a site and its     *)
(* mapping to a manager's ref are two rows of a store without unique keys  *)
(* or transactions, and the privacy setting of a site is cached.           *)
(*                                                                         *)
(* Every statement is a step; it may fail, and one that fails may have     *)
(* been carried out.  A ref stands for a manager and the manager's ref.    *)
(***************************************************************************)
EXTENDS Integers, FiniteSets

CONSTANTS
  Ref,
  MaxSites,    \* bound on the ids generateID hands out, beside the default site
  Caller,
  Ingested     \* bound: the sites whose privacy setting is read and changed

Default == 1
SiteId == 1..MaxSites + 1
NoOne == 0

ASSUME SiteAssumption == MaxSites \in Nat /\ Ingested \subseteq SiteId

VARIABLES
  sites,      \* the live rows of sites: their raw_distinct_id
  mappings,   \* the rows of site_management
  ids,        \* the ids in use so far
  caller,     \* the calls of EnsureManaged and Adopt
  deletion,   \* a Delete, and what it has yet to do
  flip,       \* a SetRawDistinctID, and what it has yet to do
  fetch,      \* PrivacyConfigChecked between its read and its install
  cache,      \* s.cache
  told,       \* answers given, and not outlived by a deletion
  unsure,     \* sites a write of which failed though it was carried out
  revived     \* the default site came back to a mapping left behind

siteVars == <<sites, mappings, ids, caller, deletion, flip, fetch, cache, told,
              unsure, revived>>

NoCall == [at |-> "off", ref |-> NoOne, site |-> NoOne, todo |-> {}]
NoStep == [site |-> NoOne, at |-> "off"]
NoFetch == [site |-> NoOne, raw |-> FALSE]
Without(f, s) == [t \in DOMAIN f \ {s} |-> f[t]]
With(f, s, v) == [t \in DOMAIN f \cup {s} |-> IF t = s THEN v ELSE f[t]]
Live(s) == s \in DOMAIN sites

SiteInit ==
  /\ sites = [s \in {Default} |-> FALSE] /\ mappings = {} /\ ids = 1
  /\ caller = [c \in Caller |-> NoCall] /\ deletion = NoStep /\ flip = NoStep
  /\ fetch = NoFetch /\ cache = [s \in {} |-> FALSE] /\ told = {} /\ unsure = {}
  /\ revived = FALSE

-----------------------------------------------------------------------------
(* EnsureManaged and Adopt, under managedMu.                               *)

\* Mutant: an adoption does not take the mutex.
ManagedFreeToAdopt(op) == op = "adopt" \/ \A c \in Caller : caller[c].at = "off"

ManagedFree(op) == \A c \in Caller : caller[c].at = "off"

CallGoes(c, call) == caller' = [caller EXCEPT ![c] = call]
CallEnds(c) == CallGoes(c, NoCall)
NamedBy(f) == {m[1] : m \in {n \in mappings : n[2] = f}}

ReadManaged(c, f) ==
  /\ caller[c].at = "off" /\ ManagedFree("ensure")
  /\ CallGoes(c, [at |-> "look", ref |-> f, site |-> NoOne, todo |-> NamedBy(f)])
  /\ UNCHANGED <<sites, mappings, ids, deletion, flip, fetch, cache, told, unsure, revived>>

\* Oldest first, which tells apart only sites a ref should not have two of.
LookManaged(c) ==
  /\ caller[c].at = "look"
  /\ \E s \in caller[c].todo :
       IF Live(s) THEN CallGoes(c, [caller[c] EXCEPT !.at = "answer", !.site = s])
                  ELSE CallGoes(c, [caller[c] EXCEPT !.todo = @ \ {s}])
  /\ UNCHANGED <<sites, mappings, ids, deletion, flip, fetch, cache, told, unsure, revived>>

InsertMapping(c) ==
  LET row == <<ids + 1, caller[c].ref>>
  IN /\ caller[c].at = "look" /\ caller[c].todo = {} /\ ids =< MaxSites
     /\ ids' = ids + 1
     /\ \/ /\ mappings' = mappings \cup {row}
           /\ CallGoes(c, [caller[c] EXCEPT !.at = "insert", !.site = ids + 1])
        \/ mappings' \in {mappings, mappings \cup {row}} /\ CallEnds(c)
     /\ UNCHANGED <<sites, deletion, flip, fetch, cache, told, unsure, revived>>

InsertSite(c) ==
  LET inserted == With(sites, caller[c].site, FALSE)
  IN /\ caller[c].at = "insert"
     /\ \/ sites' = inserted /\ CallGoes(c, [caller[c] EXCEPT !.at = "answer"])
        \/ sites' \in {sites, inserted} /\ CallEnds(c)
     /\ UNCHANGED <<mappings, ids, deletion, flip, fetch, cache, told, unsure, revived>>

BeginAdopt(c, s, f) ==
  /\ caller[c].at = "off" /\ ManagedFree("adopt") /\ Live(s)
  /\ CallGoes(c, [at |-> "current", ref |-> f, site |-> s, todo |-> {}])
  /\ UNCHANGED <<sites, mappings, ids, deletion, flip, fetch, cache, told, unsure, revived>>

\* A site that is another ref's is refused, one that is this ref's is answered.
ReadManager(c) ==
  LET refs == {m[2] : m \in {n \in mappings : n[1] = caller[c].site}}
  IN /\ caller[c].at = "current"
     /\ CASE refs = {} -> CallGoes(c, [caller[c] EXCEPT !.at = "refs"])
          [] refs = {caller[c].ref} -> CallGoes(c, [caller[c] EXCEPT !.at = "answer"])
          [] OTHER -> CallEnds(c)
     /\ UNCHANGED <<sites, mappings, ids, deletion, flip, fetch, cache, told, unsure, revived>>

ReadRefs(c) ==
  /\ caller[c].at = "refs"
  /\ CallGoes(c, [caller[c] EXCEPT !.at = "taken", !.todo = NamedBy(caller[c].ref)])
  /\ UNCHANGED <<sites, mappings, ids, deletion, flip, fetch, cache, told, unsure, revived>>

\* A ref that names a live site is refused.
LookTaken(c) ==
  /\ caller[c].at = "taken"
  /\ \E s \in caller[c].todo :
       IF Live(s) THEN CallEnds(c) ELSE CallGoes(c, [caller[c] EXCEPT !.todo = @ \ {s}])
  /\ UNCHANGED <<sites, mappings, ids, deletion, flip, fetch, cache, told, unsure, revived>>

RecordAdoption(c) ==
  LET adopted == mappings \cup {<<caller[c].site, caller[c].ref>>}
  IN /\ caller[c].at = "taken" /\ caller[c].todo = {}
     /\ \/ mappings' = adopted /\ CallGoes(c, [caller[c] EXCEPT !.at = "answer"])
        \/ mappings' \in {mappings, adopted} /\ CallEnds(c)
     /\ UNCHANGED <<sites, ids, deletion, flip, fetch, cache, told, unsure, revived>>

\* A site deleted since it was found is answered as an empty one.
ManagedAnswered(c) ==
  /\ caller[c].at = "answer"
  /\ told' = told \cup {<<s, caller[c].ref>> : s \in {caller[c].site} \cap DOMAIN sites}
  /\ CallEnds(c)
  /\ UNCHANGED <<sites, mappings, ids, deletion, flip, fetch, cache, unsure, revived>>

CallFails(c) ==
  /\ caller[c].at \in {"look", "current", "refs", "taken", "answer"} /\ CallEnds(c)
  /\ UNCHANGED <<sites, mappings, ids, deletion, flip, fetch, cache, told, unsure, revived>>

-----------------------------------------------------------------------------
(* The privacy setting and the deletion, under no mutex but the cache's.   *)

\* Mutant: a cache miss reads the row before it takes the write lock.
PrivacyFreeUnread == TRUE

PrivacyFree == fetch = NoFetch

InvalidatePrivacy(s) == PrivacyFree /\ cache' = Without(cache, s)

FetchPrivacy(s) ==
  /\ fetch = NoFetch /\ s \notin DOMAIN cache /\ Live(s)
  /\ fetch' = [site |-> s, raw |-> sites[s]]
  /\ UNCHANGED <<sites, mappings, ids, caller, deletion, flip, cache, told, unsure, revived>>

InstallPrivacy ==
  /\ fetch # NoFetch
  /\ cache' = With(cache, fetch.site, fetch.raw) /\ fetch' = NoFetch
  /\ UNCHANGED <<sites, mappings, ids, caller, deletion, flip, told, unsure, revived>>

SetRawDistinctID(s, raw) ==
  LET updated == IF Live(s) THEN [sites EXCEPT ![s] = raw] ELSE sites
  IN /\ flip = NoStep
     /\ sites' \in {sites, updated}
     /\ \/ sites' = updated /\ flip' = [site |-> s, at |-> "invalidate"] /\ UNCHANGED unsure
        \/ /\ unsure' = IF sites' = sites THEN unsure ELSE unsure \cup {s}
           /\ UNCHANGED flip
     /\ UNCHANGED <<mappings, ids, caller, deletion, fetch, cache, told, revived>>

RawDistinctIDSet ==
  /\ flip # NoStep /\ InvalidatePrivacy(flip.site) /\ flip' = NoStep
  /\ UNCHANGED <<sites, mappings, ids, caller, deletion, fetch, told, unsure, revived>>

DeleteSite(s) ==
  /\ deletion = NoStep /\ Live(s)
  /\ sites' \in {sites, Without(sites, s)}
  /\ told' = IF sites' = sites THEN told ELSE {m \in told : m[1] # s}
  /\ \/ sites' # sites /\ deletion' = [site |-> s, at |-> "invalidate"] /\ UNCHANGED unsure
     \/ /\ unsure' = IF sites' = sites THEN unsure ELSE unsure \cup {s}
        /\ UNCHANGED deletion
  /\ UNCHANGED <<mappings, ids, caller, flip, fetch, cache, revived>>

DeleteInvalidates ==
  /\ deletion.at = "invalidate" /\ InvalidatePrivacy(deletion.site)
  /\ deletion' = [deletion EXCEPT !.at = "mapping"]
  /\ UNCHANGED <<sites, mappings, ids, caller, flip, fetch, told, unsure, revived>>

\* Best effort.
DeleteMapping ==
  /\ deletion.at = "mapping" /\ deletion' = NoStep
  /\ mappings' \in {mappings, {m \in mappings : m[1] # deletion.site}}
  /\ UNCHANGED <<sites, ids, caller, flip, fetch, cache, told, unsure, revived>>

\* The process is started again, which makes a default site if there is none.
SiteRestart ==
  /\ caller' = [c \in Caller |-> NoCall] /\ deletion' = NoStep /\ flip' = NoStep
  /\ fetch' = NoFetch /\ cache' = [s \in {} |-> FALSE] /\ unsure' = {}
  /\ sites' = IF Live(Default) THEN sites ELSE With(sites, Default, FALSE)
  /\ revived' = (revived \/ (~Live(Default) /\ \E m \in mappings : m[1] = Default))
  /\ UNCHANGED <<mappings, ids, told>>

SiteNext ==
  \/ \E c \in Caller :
       \/ \E f \in Ref : ReadManaged(c, f) \/ \E s \in SiteId : BeginAdopt(c, s, f)
       \/ LookManaged(c) \/ InsertMapping(c) \/ InsertSite(c)
       \/ ReadManager(c) \/ ReadRefs(c) \/ LookTaken(c) \/ RecordAdoption(c)
       \/ ManagedAnswered(c) \/ CallFails(c)
  \/ \E s \in SiteId : DeleteSite(s)
  \/ \E s \in Ingested : FetchPrivacy(s) \/ \E raw \in BOOLEAN : SetRawDistinctID(s, raw)
  \/ InstallPrivacy \/ RawDistinctIDSet \/ DeleteInvalidates \/ DeleteMapping
  \/ SiteRestart

SiteSpec == SiteInit /\ [][SiteNext]_siteVars

-----------------------------------------------------------------------------
SiteTypeOK ==
  /\ DOMAIN sites \subseteq 1..ids /\ \A s \in DOMAIN sites : sites[s] \in BOOLEAN
  /\ mappings \subseteq (1..ids) \X Ref /\ ids \in SiteId
  /\ \A c \in Caller : caller[c].at \in {"off", "look", "insert", "current", "refs",
                                         "taken", "answer"}
  /\ DOMAIN cache \subseteq SiteId /\ told \subseteq mappings /\ unsure \subseteq SiteId

(* "The same manager and ref always answers with the same site", "a site   *)
(* never has a second owner": of the live sites a ref names one, and a site*)
(* is one ref's, whatever calls, retries and deletions run beside each     *)
(* other; what was answered stays true until the site is deleted.  The     *)
(* default site may come back to a mapping its deletion left behind, and   *)
(* its ref may have another site by then.                                  *)
OneSitePerRef ==
  /\ \A m, n \in mappings : m[1] = n[1] => m = n
  /\ revived \/ \A m, n \in mappings : m[2] = n[2] /\ Live(m[1]) /\ Live(n[1]) => m = n

(* A site made for a manager is never one nobody manages, which "would be  *)
(* visible in the dashboard forever".                                      *)
NoOrphanSites ==
  \A s \in DOMAIN sites \ {Default} : \E m \in mappings : m[1] = s

(* "A deleted site can't keep serving a stale opt-out", nor one that was   *)
(* flipped, once the call has returned.                                    *)
PrivacyCurrent ==
  \A s \in DOMAIN cache :
    \/ Live(s) /\ cache[s] = sites[s]
    \/ s \in unsure \/ s \in {flip.site} \/ (s = deletion.site /\ deletion.at = "invalidate")

SitesSound == OneSitePerRef /\ NoOrphanSites /\ PrivacyCurrent
=============================================================================
