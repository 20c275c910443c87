----------------------------- MODULE MCBuffers -----------------------------
(* The two write-behind buffers in one run, a behaviour of the one its     *)
(* first state names: they promise the same of a log that fails the same.  *)
(* Of the events, d2 is a retry of d1, and d3 reuses the key of d1 for     *)
(* another batch, which shares an event with it.                           *)
EXTENDS MCErrorBuffer

CONSTANTS d1, d2, d3, e1, e2, e3, k1, NoKey

VARIABLES bproc, battached, blog, bstable, bcp, blatched, bbufErr, bevents, bqueuedBytes,
          bflightBytes, blastOffset, bflight, bflusher, bowner, bworkerErr, bstopped,
          bcall, bcache, bdb, bcrashes, ofErrors

bvars == <<bproc, battached, blog, bstable, bcp, blatched, bbufErr, bevents, bqueuedBytes,
           bflightBytes, blastOffset, bflight, bflusher, bowner, bworkerErr, bstopped,
           bcall, bcache, bdb, bcrashes>>

Ingest == INSTANCE Buffer WITH
  Call <- {d1, d2, d3}, Event <- {e1, e2, e3}, CacheKey <- {k1},
  Batch <- [c \in {d1, d2, d3} |-> IF c = d3 THEN <<e2, e3>> ELSE <<e1, e2>>],
  Key <- [c \in {d1, d2, d3} |-> k1],
  Size <- [e \in {e1, e2, e3} |-> IF e = e1 THEN 2 ELSE 1],
  MaxSize <- 4, MaxBufferedBytes <- 5, ChunkSize <- 1, CacheMax <- 1, MaxDigestsPerKey <- 1,
  FaultKind <- {"flush", "insert", "ambiguous", "panic", "checkpoint", "open"},
  proc <- bproc, attached <- battached, log <- blog, stable <- bstable, cp <- bcp,
  latched <- blatched, bufErr <- bbufErr, events <- bevents, queuedBytes <- bqueuedBytes,
  flightBytes <- bflightBytes, lastOffset <- blastOffset, flight <- bflight,
  flusher <- bflusher, owner <- bowner, workerErr <- bworkerErr, stopped <- bstopped,
  call <- bcall, cache <- bcache, db <- bdb, crashes <- bcrashes

ASSUME BuffersAssumption == NoKey # k1

MCInit == Init /\ Ingest!Init /\ ofErrors \in BOOLEAN

MCNext ==
  /\ \/ ofErrors /\ Next /\ UNCHANGED bvars
     \/ ~ofErrors /\ Ingest!Next /\ UNCHANGED vars
  /\ UNCHANGED ofErrors

MCSpec == MCInit /\ [][MCNext]_<<vars, bvars, ofErrors>>

-----------------------------------------------------------------------------
\* What the other buffer promises holds of the one state it stays in.
BuffersTypeOK == IF ofErrors THEN TypeOK ELSE Ingest!TypeOK

(* The checkpoint passes no event that is not stored and no record without *)
(* a final disposition, and what was acknowledged as durable is stored or  *)
(* disposed of, or in the part of the log that a crash leaves: the flush,  *)
(* the replay and the caches of both buffer.go.                            *)
LogKept == IF ofErrors THEN CheckpointFinal /\ AckedDisposed
                       ELSE Ingest!CheckpointCovered /\ Ingest!AckedRecoverable

(* The budgets count what is queued, in flight and waiting for its commit, *)
(* no more and no less, whatever failed on the way.                        *)
BudgetsExact == IF ofErrors THEN ReservationsExact ELSE Ingest!BudgetExact

(* No event and no identified record has two rows, however often it is     *)
(* sent, queued again and replayed (the committed keys of buffer.go, the   *)
(* ledger of inbox.go).                                                    *)
RowsOnce == IF ofErrors THEN AppliedOnce ELSE Ingest!StoredOnce
=============================================================================
