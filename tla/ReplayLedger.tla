---------------------------- MODULE ReplayLedger ----------------------------
(***************************************************************************)
(* Ingesting the batches of one session replay, internal/replays: a ledger *)
(* of batches, a session row in versions and the child events, written in  *)
(* one transaction under a lock of the replay, and click heat after it.    *)
(*                                                                         *)
(* A batch has an identity (protocol v2), a digest, one navigation and one *)
(* click, so its children are one row; a v1 batch, which every retry       *)
(* writes anew, is left out, and so are the privacy policy and the merging *)
(* of heat rows, which may only take clicks away.                          *)
(***************************************************************************)
EXTENDS Integers, FiniteSets

CONSTANTS
  ReplaySite, NoSite,   \* sites whose trackers name this replay, and none
  Batch,                \* pairs of producer and batch identity
  Digest, NoDigest,     \* of the events of a batch
  Ingester              \* requests being served

ASSUME ReplayAssumption == NoSite \notin ReplaySite /\ NoDigest \notin Digest

VARIABLES
  sessions,   \* of each site: its session rows, by start time
  batches,    \* replay_batches: the digest of each
  children,   \* replay_events: how many rows each batch has
  heat,       \* click_heatmaps: how often each batch was counted
  ingest,     \* what each request is at
  stored      \* the batches answered, as they were sent

replayVars == <<sessions, batches, children, heat, ingest, stored>>

Key == ReplaySite \X Batch
NoSession == [start |-> NoDigest, pages |-> 0]
NoIngest == [at |-> "idle", site |-> NoSite, batch |-> {}, sha |-> NoDigest, row |-> NoSession]

ReplayInit ==
  /\ sessions = [s \in ReplaySite |-> {}]
  /\ batches = [k \in Key |-> NoDigest] /\ children = [k \in Key |-> 0]
  /\ heat = [k \in Key |-> 0]
  /\ ingest = [i \in Ingester |-> NoIngest] /\ stored = {}

-----------------------------------------------------------------------------
\* Mutant: the lock is that of the site and the replay.
ReplayFreeToSite(s) == \A i \in Ingester : ingest[i].site # s

ReplayFree(s) == \A i \in Ingester : ingest[i].at = "idle"

IngestGoes(i, where) == ingest' = [ingest EXCEPT ![i].at = where]
IngestEnds(i) == ingest' = [ingest EXCEPT ![i] = NoIngest]
KeyOf(i) == <<ingest[i].site, CHOOSE b \in ingest[i].batch : TRUE>>

\* A batch arrives, for the first time or again, and has the lock.
BeginIngest(i, s, b, sha) ==
  /\ ingest[i].at = "idle" /\ ReplayFree(s)
  /\ ingest' = [ingest EXCEPT ![i] =
                  [NoIngest EXCEPT !.at = "owner", !.site = s, !.batch = {b}, !.sha = sha]]
  /\ UNCHANGED <<sessions, batches, children, heat, stored>>

\* Outside the transaction: a session row of another site refuses the batch.
ReplayOwner(i) ==
  /\ ingest[i].at = "owner"
  /\ IF \E s \in ReplaySite \ {ingest[i].site} : sessions[s] # {}
     THEN IngestEnds(i) ELSE IngestGoes(i, "ledger")
  /\ UNCHANGED <<sessions, batches, children, heat, stored>>

\* Mutant: a row of this identity is this batch, whatever its digest.
SameBatchAny(prior, sha) == TRUE

SameBatch(prior, sha) == prior = sha

\* A retry of what is committed is answered without writing anything.
LedgerLookup(i) ==
  LET prior == batches[KeyOf(i)] IN
  /\ ingest[i].at = "ledger"
  /\ IF prior = NoDigest THEN IngestGoes(i, "session") /\ UNCHANGED stored
     ELSE /\ IngestEnds(i)
          /\ stored' = IF SameBatch(prior, ingest[i].sha)
                       THEN stored \cup {<<KeyOf(i), ingest[i].sha>>} ELSE stored
  /\ UNCHANGED <<sessions, batches, children, heat>>

\* Mutant: a version starts where its own batch starts.
StartOfBatch(row, sha) == sha

\* The start time is in the key of the table: a row that moved it would not
\* replace the one before.  (A batch starts at a time of its own.)
StartOf(row, sha) == IF row = NoSession THEN sha ELSE row.start

\* upsertSession reads the session row, if there is one.
ReadSession(i) ==
  LET rows == sessions[ingest[i].site] IN
  /\ ingest[i].at = "session"
  /\ \E row \in IF rows = {} THEN {NoSession} ELSE rows :
       ingest' = [ingest EXCEPT ![i].at = "commit",
                    ![i].row = [start |-> StartOf(row, ingest[i].sha),
                                pages |-> IF row = NoSession THEN 2 ELSE row.pages + 1]]
  /\ UNCHANGED <<sessions, batches, children, heat, stored>>

\* The row, the children and the ledger row are committed; the answer of the
\* commit may be lost, and with it the clicks.
CommitIngest(i) ==
  LET s == ingest[i].site IN
  /\ ingest[i].at = "commit"
  /\ sessions' = [sessions EXCEPT ![s] =
        {row \in @ : row.start # ingest[i].row.start} \cup {ingest[i].row}]
  /\ children' = [children EXCEPT ![KeyOf(i)] = @ + 1]
  /\ batches' = [batches EXCEPT ![KeyOf(i)] = ingest[i].sha]
  /\ IngestGoes(i, "heat") \/ IngestEnds(i)
  /\ UNCHANGED <<heat, stored>>

\* Best effort: a failure is logged and the batch is answered.
AggregateHeat(i) ==
  /\ ingest[i].at = "heat"
  /\ heat' \in {heat, [heat EXCEPT ![KeyOf(i)] = @ + 1]}
  /\ stored' = stored \cup {<<KeyOf(i), ingest[i].sha>>}
  /\ IngestEnds(i)
  /\ UNCHANGED <<sessions, batches, children>>

\* A read or a statement fails, and the transaction with it.
IngestFails(i) ==
  /\ ingest[i].at \in {"owner", "ledger", "session", "commit"}
  /\ IngestEnds(i)
  /\ UNCHANGED <<sessions, batches, children, heat, stored>>

\* The process dies: the transaction that was open is rolled back.
ReplayCrash ==
  /\ ingest' = [i \in Ingester |-> NoIngest]
  /\ UNCHANGED <<sessions, batches, children, heat, stored>>

ReplayNext ==
  \/ \E i \in Ingester :
       \/ \E s \in ReplaySite, b \in Batch, sha \in Digest : BeginIngest(i, s, b, sha)
       \/ ReplayOwner(i) \/ LedgerLookup(i) \/ ReadSession(i) \/ CommitIngest(i)
       \/ AggregateHeat(i) \/ IngestFails(i)
  \/ ReplayCrash

ReplaySpec == ReplayInit /\ [][ReplayNext]_replayVars

-----------------------------------------------------------------------------
ReplayTypeOK ==
  /\ \A s \in ReplaySite : \A row \in sessions[s] : row.start \in Digest /\ row.pages \in Nat
  /\ batches \in [Key -> Digest \cup {NoDigest}]
  /\ \A k \in Key : children[k] \in Nat /\ heat[k] \in Nat
  /\ \A i \in Ingester :
       ingest[i].at \in {"idle", "owner", "ledger", "session", "commit", "heat"}
  /\ stored \subseteq Key \X Digest

Pages(s) == Cardinality({b \in Batch : children[<<s, b>>] > 0})

(* A batch is stored once, however often it is sent: its children are there*)
(* once, the one session row of the replay has counted its navigation once,*)
(* and its clicks count at most once, for a batch that is stored.          *)
BatchesCountOnce ==
  /\ \A k \in Key : /\ children[k] = (IF batches[k] = NoDigest THEN 0 ELSE 1)
                    /\ heat[k] =< children[k]
  /\ \A s \in ReplaySite :
       IF Pages(s) = 0 THEN sessions[s] = {}
       ELSE \E row \in sessions[s] : sessions[s] = {row} /\ row.pages = 1 + Pages(s)

(* What was answered is what is stored: an identity used again for other   *)
(* events is refused and not taken for a retry.                            *)
AnsweredIsStored == \A answer \in stored : batches[answer[1]] = answer[2]

(* A replay is one site's, whoever claims it at the same time.             *)
OneOwner ==
  \A k, j \in Key : children[k] > 0 /\ children[j] > 0 => k[1] = j[1]

ReplaySound == BatchesCountOnce /\ AnsweredIsStored /\ OneOwner
=============================================================================
