---------------------------- MODULE ExportLedger ----------------------------
(***************************************************************************)
(* Scheduled exports, internal/jobs/exports.go: a frozen run per export in *)
(* a ledger, drained by the minute pass and by "Run now", each attempt     *)
(* uploading a data object and its manifest under keys of the run.         *)
(*                                                                         *)
(* What an attempt uploads is a body, the result of its own query.  The    *)
(* versions of the ledger rows are the order of the writes.  The minute    *)
(* pass is one loop; "Run now" creates the run it drains.  The format, the *)
(* budgets of a query and the last_* columns are left out.                 *)
(***************************************************************************)
EXTENDS Integers, FiniteSets

CONSTANTS
  Run,               \* runs
  Body, Nothing,      \* what a query may return, and no object
  ExportTries        \* maxAttempts

ASSUME ExportAssumption == ExportTries \in Nat \ {0} /\ Nothing \notin Body

Pass == "pass"   \* the minute pass
Now == "now"     \* a request to run an export now
Drainer == {Pass, Now}

VARIABLES
  ledger,     \* the latest row of each run
  bucket,     \* its two objects
  drain,      \* what each drainer is at
  due,        \* the runs the minute pass has listed
  overlapped  \* runs that two drains have held at once

exportVars == <<ledger, bucket, drain, due, overlapped>>

Absent == [is |-> "absent", tries |-> 0, sum |-> Nothing]
Fresh == [is |-> "waiting", tries |-> 0, sum |-> Nothing]
Resting == [at |-> "rest", run |-> Nothing, row |-> Absent, body |-> Nothing]
Terminal(row) == row.is \in {"finished", "dead"}

ExportInit ==
  /\ ledger = [r \in Run |-> Absent]
  /\ bucket = [r \in Run |-> [data |-> Nothing, manifest |-> Nothing]]
  /\ drain = [d \in Drainer |-> Resting] /\ due = {} /\ overlapped = {}

-----------------------------------------------------------------------------
DrainAt(d, where) == drain' = [drain EXCEPT ![d].at = where]
Rests(d) == drain' = [drain EXCEPT ![d] = Resting]
Reads(d, r) == drain' = [drain EXCEPT ![d] = [Resting EXCEPT !.at = "read", !.run = r]]

\* The cron interval of an export has passed, or somebody asks.
EnqueueRun(d, r) ==
  /\ drain[d].at = "rest" /\ ledger[r] = Absent
  /\ d = Pass => due = {}
  /\ ledger' = [ledger EXCEPT ![r] = Fresh]
  /\ Reads(d, r)
  /\ UNCHANGED <<bucket, due, overlapped>>

\* The scan of the minute pass: unfinished, within its budget, its backoff
\* over.  A run is listed only if its backoff has passed.
ScanDue ==
  /\ drain[Pass].at = "rest" /\ due = {}
  /\ due' \in SUBSET {r \in Run : ledger[r].is = "waiting" /\ ledger[r].tries < ExportTries}
  /\ due' # {}
  /\ UNCHANGED <<ledger, bucket, drain, overlapped>>

NextDue(r) ==
  /\ drain[Pass].at = "rest" /\ r \in due
  /\ due' = due \ {r} /\ Reads(Pass, r)
  /\ UNCHANGED <<ledger, bucket, overlapped>>

\* Mutant: a listed run is executed as it was listed.
StillOpenUnread(row) == row # Absent

StillOpen(row) == row # Absent /\ ~Terminal(row)

\* DrainRun reads the row again, and executes the query if it is open.
DrainRun(d) ==
  LET r == drain[d].run IN
  /\ drain[d].at = "read"
  /\ IF StillOpen(ledger[r])
     THEN /\ \E b \in Body :
               drain' = [drain EXCEPT ![d].at = "data", ![d].row = ledger[r], ![d].body = b]
          /\ overlapped' = IF \E e \in Drainer \ {d} :
                                drain[e].run = r /\ drain[e].at # "read"
                           THEN overlapped \cup {r} ELSE overlapped
     ELSE Rests(d) /\ UNCHANGED overlapped
  /\ UNCHANGED <<ledger, bucket, due>>

\* Mutant: an upload that failed is followed by the next one.
UploadFailedOn(d, where) == DrainAt(d, where)

UploadFailed(d, where) == DrainAt(d, "failed")

\* The query or the upload fails, or the upload is made and its answer lost.
PutData(d) ==
  LET r == drain[d].run IN
  /\ drain[d].at = "data"
  /\ \/ bucket' = [bucket EXCEPT ![r].data = drain[d].body]
        /\ (DrainAt(d, "manifest") \/ UploadFailed(d, "manifest"))
     \/ UNCHANGED bucket /\ UploadFailed(d, "manifest")
  /\ UNCHANGED <<ledger, due, overlapped>>

PutManifest(d) ==
  LET r == drain[d].run IN
  /\ drain[d].at = "manifest"
  /\ \/ bucket' = [bucket EXCEPT ![r].manifest = drain[d].body]
        /\ (DrainAt(d, "done") \/ UploadFailed(d, "done"))
     \/ UNCHANGED bucket /\ UploadFailed(d, "done")
  /\ UNCHANGED <<ledger, due, overlapped>>

\* The disposition; a failure to write it is logged and the run stays due.
MarkRunFinished(d) ==
  /\ drain[d].at = "done"
  /\ \/ ledger' = [ledger EXCEPT ![drain[d].run] =
                     [is |-> "finished", tries |-> drain[d].row.tries, sum |-> drain[d].body]]
     \/ UNCHANGED ledger
  /\ Rests(d)
  /\ UNCHANGED <<bucket, due, overlapped>>

RecordRunFailure(d) ==
  LET tries == drain[d].row.tries + 1 IN
  /\ drain[d].at = "failed"
  /\ \/ ledger' = [ledger EXCEPT ![drain[d].run] =
           [is |-> IF tries >= ExportTries THEN "dead" ELSE "waiting",
            tries |-> tries, sum |-> Nothing]]
     \/ UNCHANGED ledger
  /\ Rests(d)
  /\ UNCHANGED <<bucket, due, overlapped>>

\* The process dies: the ledger and the bucket are what is left.
ExportCrash ==
  /\ drain' = [d \in Drainer |-> Resting] /\ due' = {}
  /\ UNCHANGED <<ledger, bucket, overlapped>>

DrainSteps(d) ==
  \/ DrainRun(d) \/ PutData(d) \/ PutManifest(d) \/ MarkRunFinished(d) \/ RecordRunFailure(d)

ExportNext ==
  \/ \E d \in Drainer : (\E r \in Run : EnqueueRun(d, r)) \/ DrainSteps(d)
  \/ ScanDue \/ (\E r \in Run : NextDue(r)) \/ ExportCrash

ExportSpec == ExportInit /\ [][ExportNext]_exportVars

-----------------------------------------------------------------------------
ExportTypeOK ==
  /\ \A r \in Run : /\ ledger[r].is \in {"absent", "waiting", "finished", "dead"}
                    /\ ledger[r].tries \in 0..ExportTries
                    /\ ledger[r].sum \in Body \cup {Nothing}
                    /\ bucket[r].data \in Body \cup {Nothing}
                    /\ bucket[r].manifest \in Body \cup {Nothing}
  /\ \A d \in Drainer :
       drain[d].at \in {"rest", "read", "data", "manifest", "done", "failed"}
  /\ due \subseteq Run /\ overlapped \subseteq Run

(* A finished run's checksum is that of the object and of the manifest in  *)
(* the bucket, whatever attempts failed half way before it, and stays so:  *)
(* "an operator can verify the object in place against the ledger".  Only  *)
(* a run that was drained twice at once may break it.                      *)
ArchiveVerifies ==
  \A r \in Run \ overlapped :
    ledger[r].is = "finished" =>
      bucket[r].data = ledger[r].sum /\ bucket[r].manifest = ledger[r].sum

(* A run that has come to its end, finished or dead, is not executed again *)
(* and has no attempt under way, unless it was drained twice at once.      *)
TerminalRests ==
  \A r \in Run \ overlapped, d \in Drainer :
    Terminal(ledger[r]) /\ drain[d].run = r => drain[d].at \in {"rest", "read"}

ExportSound == ArchiveVerifies /\ TerminalRests
=============================================================================
