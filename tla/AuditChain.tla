----------------------------- MODULE AuditChain -----------------------------
(***************************************************************************)
(* The audit trail, internal/audit: a hash chain of rows in a table that   *)
(* enforces nothing, written by one process under a mutex from a head it   *)
(* keeps in memory, anchored by checkpoints, and verified page by page     *)
(* while appends go on.                                                    *)
(*                                                                         *)
(* A hash is the sequence of records it chains, so a row is its sequence   *)
(* number and its chain.  Keys and their rotation, and tampering with the  *)
(* table, which Verify is there to find, are left out.                     *)
(***************************************************************************)
EXTENDS Integers, Sequences, FiniteSets

CONSTANTS
  MaxRecords,        \* bound on the records
  CheckpointEvery,
  PageSize           \* rows Verify asks for at a time, less the one past the page

ASSUME AuditAssumption ==
  MaxRecords \in Nat /\ CheckpointEvery \in Nat \ {0} /\ PageSize \in Nat \ {0}

VARIABLES
  rows,        \* audit_events
  head,        \* the head in memory: whether it is loaded, and its chain
  inserting,   \* the row of the append under way, under the mutex, or none
  adrift,      \* an insert its caller gave up, which may still land, and
               \* whether the head has been read again since
  anchor,      \* the chain of the newest checkpoint
  verify,      \* the verification under way, or its result
  recorded,    \* records so far
  landedLate   \* an insert landed after the head had been read again

auditVars == <<rows, head, inserting, adrift, anchor, verify, recorded, landedLate>>

NoRow == <<>>
NothingAdrift == [chain |-> NoRow, passed |-> FALSE]
NotLoaded == [loaded |-> FALSE, chain |-> <<>>]
NoVerify == [at |-> "idle", through |-> 0, chain |-> <<>>, anchor |-> <<>>, forked |-> FALSE]
Row(chain) == [seq |-> Len(chain), chain |-> chain]

AuditInit ==
  /\ rows = {} /\ head = NotLoaded
  /\ inserting = NoRow /\ adrift = NothingAdrift /\ anchor = <<>>
  /\ verify = NoVerify /\ recorded = 0 /\ landedLate = FALSE

-----------------------------------------------------------------------------
\* Mutant: a verification reads its watermark and its checkpoint unlocked.
MutexFreeOfVerify == inserting = NoRow

MutexFree == inserting = NoRow /\ verify.at # "watermark"

\* loadStateLocked: a row of the highest sequence number, if there is a row.
InTable(chain) ==
  IF rows = {} THEN chain = head.chain
  ELSE \E r \in rows : r.chain = chain /\ \A q \in rows : q.seq =< r.seq

\* The head an append or a checkpoint goes on from.
HeadOf(chain) == IF head.loaded THEN chain = head.chain ELSE InTable(chain)
Chains == {r.chain : r \in rows} \cup {head.chain}
HeadIs(chain) ==
  /\ head' = [loaded |-> TRUE, chain |-> chain]
  /\ adrift' = [adrift EXCEPT !.passed = @ \/ (~head.loaded /\ adrift.chain # NoRow)]

BeginRecord ==
  /\ MutexFree /\ recorded < MaxRecords
  /\ \E chain \in Chains : HeadOf(chain) /\ HeadIs(chain)
                          /\ inserting' = Append(chain, recorded + 1)
  /\ recorded' = recorded + 1
  /\ UNCHANGED <<rows, anchor, verify, landedLate>>

\* At a boundary the new head is anchored, unless that fails.
RecordAnswered ==
  /\ inserting # NoRow
  /\ rows' = rows \cup {Row(inserting)}
  /\ head' = [loaded |-> TRUE, chain |-> inserting]
  /\ \/ Len(inserting) % CheckpointEvery = 0 /\ anchor' = inserting
     \/ UNCHANGED anchor
  /\ inserting' = NoRow
  /\ UNCHANGED <<adrift, verify, recorded, landedLate>>

\* The insert was made, it was not, or it is still on its way.
InsertUnknown ==
  /\ inserting # NoRow
  /\ \/ rows' = rows \cup {Row(inserting)} /\ UNCHANGED adrift
     \/ UNCHANGED <<rows, adrift>>
     \/ /\ adrift = NothingAdrift /\ UNCHANGED rows
        /\ adrift' = [chain |-> inserting, passed |-> FALSE]

\* Mutant: the head in memory is trusted after a failed append.
HeadAfterErrorKept == head

HeadAfterError == [head EXCEPT !.loaded = FALSE]

RecordFails ==
  /\ InsertUnknown
  /\ head' = HeadAfterError /\ inserting' = NoRow
  /\ UNCHANGED <<anchor, verify, recorded, landedLate>>

InsertLands ==
  /\ adrift # NothingAdrift /\ adrift' = NothingAdrift
  /\ rows' = rows \cup {Row(adrift.chain)}
  /\ landedLate' = (landedLate \/ adrift.passed)
  /\ UNCHANGED <<head, inserting, anchor, verify, recorded>>

InsertIsLost ==
  /\ adrift # NothingAdrift /\ adrift' = NothingAdrift
  /\ UNCHANGED <<rows, head, inserting, anchor, verify, recorded, landedLate>>

\* An operator asks for a checkpoint of the head.
Checkpoint ==
  /\ MutexFree
  /\ \E chain \in Chains \ {<<>>} :
       /\ HeadOf(chain) /\ HeadIs(chain)
       /\ anchor' = IF Len(chain) >= Len(anchor) THEN chain ELSE anchor
  /\ UNCHANGED <<rows, inserting, verify, recorded, landedLate>>

\* The process dies.
AuditCrash ==
  /\ IF inserting = NoRow THEN UNCHANGED <<rows, adrift>> ELSE InsertUnknown
  /\ head' = NotLoaded /\ inserting' = NoRow /\ verify' = NoVerify
  /\ UNCHANGED <<anchor, recorded, landedLate>>

-----------------------------------------------------------------------------
\* Two rows of one sequence number, or a row that does not follow its
\* predecessor.
Forked == \E r, q \in rows : r.seq =< q.seq /\ r.chain # SubSeq(q.chain, 1, r.seq)

\* The highest sequence number.
Watermark == CHOOSE seq \in {r.seq : r \in rows} \cup {0} : \A r \in rows : seq >= r.seq

BeginVerify ==
  /\ verify.at \notin {"watermark", "walking"} /\ MutexFree
  /\ verify' = [NoVerify EXCEPT !.at = "watermark", !.forked = Forked, !.through = Watermark]
  /\ UNCHANGED <<rows, head, inserting, adrift, anchor, recorded, landedLate>>

ReadAnchor ==
  /\ verify.at = "watermark"
  /\ verify' = [verify EXCEPT !.at = "walking", !.anchor = anchor]
  /\ UNCHANGED <<rows, head, inserting, adrift, anchor, recorded, landedLate>>

Beyond == {r \in rows : r.seq > Len(verify.chain) /\ r.seq =< verify.through}

\* Mutant: a page is asked for without the row past it.
PageLimitBare == PageSize

PageLimit == PageSize + 1

\* The lowest rows, ties in any order.
IsPage(page) ==
  /\ Cardinality(page) = IF PageLimit =< Cardinality(Beyond) THEN PageLimit ELSE Cardinality(Beyond)
  /\ \A r \in page, q \in Beyond \ page : r.seq =< q.seq

\* The rows of a page that are walked: not the one past it.
Walked(page, last) == IF Cardinality(page) > PageSize THEN page \ {last} ELSE page

Straddles(page) ==
  /\ Cardinality(page) > PageSize
  /\ \E r, q \in page : r # q /\ r.seq = q.seq /\ \A x \in page : x.seq =< r.seq

\* Every row is the next one, over the hash of the one before.
Follows(walked, chain) ==
  /\ {r.seq : r \in walked} = Len(verify.chain) + 1 .. Len(chain)
  /\ Cardinality(walked) = Len(chain) - Len(verify.chain)
  /\ \A r \in walked : r.chain = SubSeq(chain, 1, r.seq)
  /\ verify.chain = SubSeq(chain, 1, Len(verify.chain))

WalkPage ==
  /\ verify.at = "walking" /\ Len(verify.chain) < verify.through
  /\ \E page \in SUBSET Beyond :
       /\ IsPage(page)
       /\ IF page = {} \/ Straddles(page) THEN verify' = [verify EXCEPT !.at = "broken"]
          ELSE \E last, top \in page :
                 LET walked == Walked(page, last) IN
                 /\ \A x \in page : x.seq =< last.seq
                 /\ top \in walked /\ \A x \in walked : x.seq =< top.seq
                 /\ verify' = IF Follows(walked, top.chain)
                              THEN [verify EXCEPT !.chain = top.chain]
                              ELSE [verify EXCEPT !.at = "broken"]
  /\ UNCHANGED <<rows, head, inserting, adrift, anchor, recorded, landedLate>>

\* The chain at the checkpoint, against the head the checkpoint recorded.
VerifyEnds ==
  /\ verify.at = "walking" /\ Len(verify.chain) = verify.through
  /\ verify' = [verify EXCEPT !.at =
       IF Len(verify.anchor) =< verify.through
            /\ verify.anchor = SubSeq(verify.chain, 1, Len(verify.anchor))
       THEN "intact" ELSE "broken"]
  /\ UNCHANGED <<rows, head, inserting, adrift, anchor, recorded, landedLate>>

AuditNext ==
  \/ BeginRecord \/ RecordAnswered \/ RecordFails \/ InsertLands \/ InsertIsLost
  \/ Checkpoint \/ AuditCrash
  \/ BeginVerify \/ ReadAnchor \/ WalkPage \/ VerifyEnds

AuditSpec == AuditInit /\ [][AuditNext]_auditVars

-----------------------------------------------------------------------------
AuditTypeOK ==
  /\ \A r \in rows : r = Row(r.chain) /\ r.chain \in Seq(1..MaxRecords) /\ r.chain # <<>>
  /\ head.loaded \in BOOLEAN /\ recorded \in 0..MaxRecords
  /\ adrift.passed \in BOOLEAN /\ landedLate \in BOOLEAN
  /\ verify.at \in {"idle", "watermark", "walking", "intact", "broken"}

(* The chain never forks, whatever failed and however often the process    *)
(* died, unless an insert lands after the head was read again: the case    *)
(* Record leaves to "a durable intent/reconcile protocol".                 *)
ForksOnlyLate == Forked => landedLate

(* Verify calls a chain broken only when it is, whatever is appended and   *)
(* anchored while it walks, and calls none intact that was forked when it  *)
(* began, wherever its pages end.                                          *)
VerifyIsRight ==
  /\ verify.at = "broken" => landedLate
  /\ verify.at = "intact" => ~verify.forked

AuditSound == ForksOnlyLate /\ VerifyIsRight
=============================================================================
