--------------------------- MODULE BackupArchive ----------------------------
(***************************************************************************)
(* Backup and restore, internal/backup: a dump of all tables under a lease *)
(* that keeps writers out for a while, a key-value section that no lease   *)
(* covers, a completion record at the end, and a restore that validates,   *)
(* wants an empty target and appends.                                      *)
(*                                                                         *)
(* Every writing transaction of the database takes all its tables to the   *)
(* next moment.  A key holds the number of its upload, 0 when there is     *)
(* none, so no two uploads are alike.  Encryption, the format of entries   *)
(* and the keys of sets, which are derived from those of blobs, are left   *)
(* out.                                                                    *)
(***************************************************************************)
EXTENDS Integers

CONSTANTS
  TableCount,    \* tables, in the order of Tables
  BlobKey,       \* keys of srcmap:*
  KvTries,       \* kvConvergenceAttempts
  EngineLeases,  \* whether the engine knows the lease: a subset of BOOLEAN
  MaxMoment, MaxUploads   \* bounds

ASSUME BackupAssumption ==
  /\ KvTries \in Nat /\ MaxMoment \in Nat /\ MaxUploads \in Nat \ {0}
  /\ EngineLeases \subseteq BOOLEAN /\ TableCount \in Nat

VARIABLES
  moment,    \* of the tables
  kv,        \* the blobs
  uploads,   \* so far
  lease,     \* whether the engine keeps writers out
  window,    \* whether the dump's own clock says the lease may have expired
  dump,      \* what the dump is at
  archive,   \* what it has written, and whether the blobs in it are those of
             \* the moment they were last listed at
  restore,   \* what the restore is at
  target     \* how often each section was applied to the target

backupVars == <<moment, kv, uploads, lease, window, dump, archive, restore, target>>

NotThere == -1
Failed == -2
Table == 1..TableCount
KvSection == TableCount + 1
Section == Table \cup {KvSection}
NoKeys == [k \in BlobKey |-> 0]
NoRead == [k \in BlobKey |-> NotThere]
NoDump == [at |-> "off", next |-> 1, tries |-> 0, prev |-> NoRead, read |-> NoKeys,
           left |-> {}, listed |-> NoKeys]
NoArchive == [held |-> FALSE, results |-> FALSE, tables |-> [t \in Table |-> NotThere],
              kv |-> "absent"]

BackupInit ==
  /\ moment = 0 /\ kv \in [BlobKey -> {0, 1}] /\ uploads = 1
  /\ lease = FALSE /\ window = "in" /\ dump = NoDump /\ archive = NoArchive
  /\ restore = [at |-> "off", next |-> 1, said |-> "nothing"]
  /\ target = [x \in Section |-> 0]

-----------------------------------------------------------------------------
\* The engine's writers, and those of the key-value store, while a dump goes
\* on: before and after it they change nothing it has read.
WriteTables ==
  /\ dump.at # "off" /\ ~lease /\ moment < MaxMoment /\ moment' = moment + 1
  /\ UNCHANGED <<kv, uploads, lease, window, dump, archive, restore, target>>

WriteBlob(k) ==
  /\ dump.at # "off"
  /\ \/ uploads < MaxUploads /\ uploads' = uploads + 1
        /\ kv' = [kv EXCEPT ![k] = uploads + 1]
     \/ kv[k] # 0 /\ kv' = [kv EXCEPT ![k] = 0] /\ UNCHANGED uploads
  /\ UNCHANGED <<moment, lease, window, dump, archive, restore, target>>

\* The dump's window began before the lease did, and ends before it.
WindowCloses ==
  /\ lease /\ window = "in" /\ window' = "over"
  /\ UNCHANGED <<moment, kv, uploads, lease, dump, archive, restore, target>>

LeaseExpires ==
  /\ lease /\ window = "over" /\ lease' = FALSE
  /\ UNCHANGED <<moment, kv, uploads, window, dump, archive, restore, target>>

-----------------------------------------------------------------------------
Releases == lease' = (lease /\ ~archive.held)

\* The lease of a dump that died may still be there.
BeginDump ==
  /\ dump.at = "off" /\ restore.at = "off"
  /\ \E known \in EngineLeases :
       /\ known => ~lease /\ lease' = TRUE /\ window' = "in"
       /\ ~known => UNCHANGED <<lease, window>>
       /\ archive' = [NoArchive EXCEPT !.held = known]
  /\ dump' = [NoDump EXCEPT !.at = "tables"]
  /\ restore' = [restore EXCEPT !.said = "nothing"]
  /\ UNCHANGED <<moment, kv, uploads, target>>

\* A table that cannot be read is left out, and the dump goes on.
DumpTable ==
  /\ dump.at = "tables" /\ dump.next \in Table
  /\ dump' = [dump EXCEPT !.next = @ + 1]
  /\ \E got \in {moment, Failed} : archive' = [archive EXCEPT !.tables[dump.next] = got]
  /\ UNCHANGED <<moment, kv, uploads, lease, window, restore, target>>

\* One read of the namespace: the keys, and then their values.
KvList ==
  /\ \/ dump.at = "tables" /\ dump.next = KvSection
     \/ dump.at = "kv"
  /\ dump.tries < KvTries
  /\ dump' = [dump EXCEPT !.at = "keys", !.tries = @ + 1, !.listed = kv,
                          !.read = NoKeys, !.left = {k \in BlobKey : kv[k] # 0}]
  /\ UNCHANGED <<moment, kv, uploads, lease, window, archive, restore, target>>

\* A key that has vanished since it was listed restarts the pair.
KvRead(k) ==
  /\ dump.at = "keys" /\ k \in dump.left
  /\ dump' = IF kv[k] = 0 THEN [dump EXCEPT !.at = "kv", !.prev = NoRead, !.left = {}]
             ELSE [dump EXCEPT !.left = @ \ {k}, !.read[k] = kv[k]]
  /\ UNCHANGED <<moment, kv, uploads, lease, window, archive, restore, target>>

\* Mutant: one read is enough.
AgreesOnce == TRUE

Agrees == dump.prev = dump.read

KvCompare ==
  /\ dump.at = "keys" /\ dump.left = {}
  /\ dump' = IF Agrees THEN [dump EXCEPT !.at = "relist"]
             ELSE [dump EXCEPT !.at = "kv", !.prev = dump.read]
  /\ UNCHANGED <<moment, kv, uploads, lease, window, archive, restore, target>>

KvRelist ==
  /\ dump.at = "relist"
  /\ IF \A k \in BlobKey : kv[k] = 0 <=> dump.read[k] = 0
     THEN /\ dump' = [NoDump EXCEPT !.at = "check"]
          /\ archive' = [archive EXCEPT !.kv =
               IF dump.read = dump.listed THEN "moment" ELSE "mixture"]
     ELSE dump' = [dump EXCEPT !.at = "kv", !.prev = dump.read] /\ UNCHANGED archive
  /\ UNCHANGED <<moment, kv, uploads, lease, window, restore, target>>

\* A read fails, or the attempts are used up: the section is left out.
KvFails ==
  /\ dump.at \in {"kv", "keys", "relist"}
  /\ dump' = [NoDump EXCEPT !.at = "check"]
  /\ archive' = [archive EXCEPT !.kv = "failed"]
  /\ UNCHANGED <<moment, kv, uploads, lease, window, restore, target>>

\* Mutant: the window was good when the lease was acquired.
WindowHoldsUnread == TRUE

WindowHolds == archive.held => window = "in"

\* The window, and only then the completion record.
FinishDump ==
  /\ dump.at = "check"
  /\ archive' = [archive EXCEPT !.results = WindowHolds]
  /\ dump' = NoDump /\ Releases
  /\ UNCHANGED <<moment, kv, uploads, window, restore, target>>

\* The dump is killed, or its output cannot be written: the archive ends
\* where it is, and the lease with the connection or in its own time.
DumpCut ==
  /\ dump.at # "off" /\ dump' = NoDump
  /\ UNCHANGED lease \/ Releases
  /\ UNCHANGED <<moment, kv, uploads, window, archive, restore, target>>

-----------------------------------------------------------------------------
\* Mutant: the completion record is not asked for.
CompleteAnyway(a) == \A t \in Table : a.tables[t] # Failed

Complete(a) == a.results /\ a.kv # "failed" /\ \A t \in Table : a.tables[t] # Failed

RestoreEnds(said) == restore' = [at |-> "off", next |-> 1, said |-> said]

ValidateArchive ==
  /\ restore.at = "off" /\ dump.at = "off"
  /\ IF Complete(archive) THEN restore' = [at |-> "inspect", next |-> 1, said |-> "nothing"]
     ELSE RestoreEnds("refused")
  /\ UNCHANGED <<moment, kv, uploads, lease, window, dump, archive, target>>

\* Mutant: a restore may be run again over what it left.
EmptyTargetUnread == TRUE

EmptyTarget == \A x \in Section : target[x] = 0

RequireEmptyTarget ==
  /\ restore.at = "inspect"
  /\ IF EmptyTarget THEN restore' = [restore EXCEPT !.at = "apply"] ELSE RestoreEnds("refused")
  /\ UNCHANGED <<moment, kv, uploads, lease, window, dump, archive, target>>

ApplySection ==
  /\ restore.at = "apply" /\ restore.next \in Section
  /\ target' = [target EXCEPT ![restore.next] = @ + 1]
  /\ restore' = [restore EXCEPT !.next = @ + 1]
  /\ UNCHANGED <<moment, kv, uploads, lease, window, dump, archive>>

\* Some batches of a section may have been committed.
ApplyFails ==
  /\ restore.at = "apply" /\ restore.next \in Section /\ RestoreEnds("failed")
  /\ target' \in {target, [target EXCEPT ![restore.next] = @ + 1]}
  /\ UNCHANGED <<moment, kv, uploads, lease, window, dump, archive>>

RestoreReturns ==
  /\ restore.at = "apply" /\ restore.next \notin Section /\ RestoreEnds("restored")
  /\ UNCHANGED <<moment, kv, uploads, lease, window, dump, archive, target>>

BackupNext ==
  \/ WriteTables \/ (\E k \in BlobKey : WriteBlob(k) \/ KvRead(k))
  \/ WindowCloses \/ LeaseExpires
  \/ BeginDump \/ DumpTable \/ KvList \/ KvCompare \/ KvRelist \/ KvFails
  \/ FinishDump \/ DumpCut
  \/ ValidateArchive \/ RequireEmptyTarget \/ ApplySection
  \/ ApplyFails \/ RestoreReturns

BackupSpec == BackupInit /\ [][BackupNext]_backupVars

-----------------------------------------------------------------------------
BackupTypeOK ==
  /\ moment \in 0..MaxMoment /\ uploads \in 0..MaxUploads
  /\ lease \in BOOLEAN /\ window \in {"in", "over"}
  /\ dump.at \in {"off", "tables", "kv", "keys", "relist", "check"}
  /\ archive.held \in BOOLEAN /\ archive.results \in BOOLEAN
  /\ \A t \in Table : archive.tables[t] \in {Failed, NotThere} \cup 0..MaxMoment
  /\ restore.at \in {"off", "inspect", "apply"} /\ DOMAIN target = Section

(* "A mixed-moment archive that the manifest would label lease-consistent":*)
(* the tables of an archive that has its completion record and says it was *)
(* read under a lease are of one moment, however long the dump took.       *)
HeldIsOneMoment ==
  archive.held /\ archive.results =>
    \A t, u \in Table : archive.tables[t] >= 0 /\ archive.tables[u] >= 0 =>
      archive.tables[t] = archive.tables[u]

(* The key-value section is the namespace of one moment too, the one of the*)
(* second listing, whatever is uploaded and deleted while it is read.      *)
KvIsOneMoment == archive.kv # "mixture"

(* A restore that says it has restored has applied every section of a      *)
(* complete archive once; none is ever applied twice, by whatever was run  *)
(* before and failed.                                                      *)
RestoredOnce ==
  /\ \A x \in Section : target[x] =< 1
  /\ restore.said = "restored" =>
       /\ archive.kv = "moment" /\ \A t \in Table : archive.tables[t] >= 0
       /\ \A x \in Section : target[x] = 1

BackupSound == HeldIsOneMoment /\ KvIsOneMoment /\ RestoredOnce
=============================================================================
