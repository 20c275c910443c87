--------------------------- MODULE BinaryUpgrade ----------------------------
(***************************************************************************)
(* `observe upgrade', internal/upgrade/upgrade.go: stop the service, swap  *)
(* the binary under its path, start it, wait for the new version to answer *)
(* for its health, and go back to the previous binary when it does not.    *)
(*                                                                         *)
(* A binary is its version.  The signed download (Prepare) is left out     *)
(* but for the version it was started under; every system call may fail,   *)
(* and the updater may be killed between any two.                          *)
(***************************************************************************)
EXTENDS Integers, FiniteSets

CONSTANTS
  Updater,      \* processes that run the command
  MaxVersion,   \* bound on the versions released, 1..MaxVersion
  Sick          \* versions that never become healthy

ASSUME UpgradeAssumption ==
  /\ MaxVersion \in Nat \ {0} /\ Sick \subseteq 2..MaxVersion

VARIABLES
  live,      \* the version under CurrentPath
  prev,      \* the version under CurrentPath.prev
  running,   \* the version the service runs
  updater,   \* what each updater is at
  report,    \* what the last Apply that came to an end said
  proven     \* the last version an Apply said it had installed

upgradeVars == <<live, prev, running, updater, report, proven>>

Release == 1..MaxVersion
NoBinary == 0
Away == [at |-> "away", known |-> NoBinary, from |-> NoBinary, to |-> NoBinary]
NoReport == [said |-> "nothing", of |-> NoBinary]

UpgradeInit ==
  /\ live = 1 /\ prev = NoBinary /\ running = 1
  /\ updater = [u \in Updater |-> Away] /\ report = NoReport
  /\ proven = 1

-----------------------------------------------------------------------------
Applying(u) == updater[u].at \notin {"away", "prepared"}
Unlocked == \A u \in Updater : ~Applying(u)
Goes(u, where) == updater' = [updater EXCEPT ![u].at = where]
Over(u, said, of) ==
  /\ updater' = [updater EXCEPT ![u] = Away]
  /\ report' = [said |-> said, of |-> of]
  /\ proven' = IF said = "upgraded" THEN of ELSE proven

\* The candidate is chosen against the version installed at that moment.
PrepareRelease(u, v) ==
  /\ updater[u].at = "away" /\ v >= live
  /\ updater' = [updater EXCEPT ![u] = [Away EXCEPT !.at = "prepared", !.known = live, !.to = v]]
  /\ UNCHANGED <<live, prev, running, report, proven>>

\* Mutant: the version known before the lock decides.
InstalledKnown(u) == updater[u].known

Installed(u) == live

\* Under the lock: the installed version is read again, a downgrade and a
\* reinstallation are refused, and the service has to run from this path.
BeginApply(u) ==
  /\ updater[u].at = "prepared" /\ Unlocked
  /\ IF updater[u].to > Installed(u) /\ running # NoBinary
     THEN /\ updater' = [updater EXCEPT ![u].at = "stop", ![u].from = Installed(u)]
          /\ report' = NoReport /\ UNCHANGED proven
     ELSE Over(u, "refused", live)
  /\ UNCHANGED <<live, prev, running>>

StopService(u) ==
  /\ updater[u].at = "stop"
  /\ \/ running' = NoBinary /\ Goes(u, "link") /\ UNCHANGED <<report, proven>>
     \/ running' \in {running, NoBinary} /\ Over(u, "failed", live)
  /\ UNCHANGED <<live, prev>>

\* Mutant: the binary is moved aside instead of linked.
LiveLinkedMoved == NoBinary

LiveLinked == live

LinkBackup(u) ==
  /\ updater[u].at = "link"
  /\ \/ prev' = live /\ live' = LiveLinked /\ Goes(u, "rename")
     \/ prev' = NoBinary /\ UNCHANGED live /\ Goes(u, "restart")
  /\ UNCHANGED <<running, report, proven>>

InstallCandidate(u) ==
  /\ updater[u].at = "rename"
  /\ \/ live' = updater[u].to /\ UNCHANGED prev /\ Goes(u, "sync")
     \/ UNCHANGED live /\ prev' = NoBinary /\ Goes(u, "restart")
  /\ UNCHANGED <<running, report, proven>>

\* When the directory cannot be synced the backup is renamed back; that this
\* fails as well goes unnoticed.
SyncInstalled(u) ==
  /\ updater[u].at = "sync"
  /\ \/ UNCHANGED <<live, prev>> /\ Goes(u, "start")
     \/ live' = prev /\ prev' = NoBinary /\ Goes(u, "restart")
     \/ UNCHANGED <<live, prev>> /\ Goes(u, "restart")
  /\ UNCHANGED <<running, report, proven>>

\* SwapBinary failed: the service is started on the binary that is there.
RestartUnswapped(u) ==
  /\ updater[u].at = "restart"
  /\ \/ running' = live
        /\ Over(u, IF live = updater[u].from THEN "unchanged" ELSE "failed", live)
     \/ running' \in {live, NoBinary} /\ Over(u, "failed", live)
  /\ UNCHANGED <<live, prev>>

StartCandidate(u) ==
  /\ updater[u].at = "start"
  /\ \/ running' = live /\ Goes(u, "health")
     \/ running' \in {live, NoBinary} /\ Goes(u, "rollback")
  /\ UNCHANGED <<live, prev, report, proven>>

\* WaitForVersionHealth asks for the exact version, until its timeout.
CandidateHealth(u) ==
  /\ updater[u].at = "health"
  /\ \/ /\ running = updater[u].to /\ running \notin Sick
        /\ Over(u, "upgraded", updater[u].to)
     \/ Goes(u, "rollback") /\ UNCHANGED <<report, proven>>
  /\ UNCHANGED <<live, prev, running>>

RollbackStop(u) ==
  /\ updater[u].at = "rollback"
  /\ \/ running' = NoBinary /\ Goes(u, "restore") /\ UNCHANGED <<report, proven>>
     \/ running' \in {running, NoBinary} /\ Over(u, "failed", live)
  /\ UNCHANGED <<live, prev>>

\* The rename may succeed and the sync of the directory after it fail.
RestoreBinary(u) ==
  /\ updater[u].at = "restore"
  /\ \/ live' = prev /\ prev' = NoBinary
        /\ \/ Goes(u, "again") /\ UNCHANGED <<report, proven>>
           \/ Over(u, "failed", prev)
     \/ UNCHANGED <<live, prev>> /\ Over(u, "failed", live)
  /\ UNCHANGED running

StartRestored(u) ==
  /\ updater[u].at = "again"
  /\ \/ running' = live /\ Goes(u, "healthAgain") /\ UNCHANGED <<report, proven>>
     \/ running' \in {live, NoBinary} /\ Over(u, "failed", live)
  /\ UNCHANGED <<live, prev>>

RestoredHealth(u) ==
  /\ updater[u].at = "healthAgain"
  /\ \/ /\ running = updater[u].from /\ running \notin Sick
        /\ Over(u, "restored", updater[u].from)
     \/ Over(u, "failed", live)
  /\ UNCHANGED <<live, prev, running>>

-----------------------------------------------------------------------------
\* The updater is killed: the kernel lets go of its lock.
UpdaterKilled(u) ==
  /\ updater[u].at # "away"
  /\ updater' = [updater EXCEPT ![u] = Away]
  /\ UNCHANGED <<live, prev, running, report, proven>>

\* The service manager starts the service while no updater is at work.
ServiceStarts ==
  /\ Unlocked /\ running = NoBinary /\ running' = live
  /\ UNCHANGED <<live, prev, updater, report, proven>>

UpgradeNext ==
  \/ \E u \in Updater :
       \/ \E v \in Release : PrepareRelease(u, v)
       \/ BeginApply(u) \/ StopService(u) \/ LinkBackup(u) \/ InstallCandidate(u)
       \/ SyncInstalled(u) \/ RestartUnswapped(u) \/ StartCandidate(u) \/ CandidateHealth(u)
       \/ RollbackStop(u) \/ RestoreBinary(u) \/ StartRestored(u) \/ RestoredHealth(u)
       \/ UpdaterKilled(u)
  \/ ServiceStarts

UpgradeSpec == UpgradeInit /\ [][UpgradeNext]_upgradeVars

-----------------------------------------------------------------------------
UpgradeTypeOK ==
  /\ live \in Release \cup {NoBinary} /\ prev \in Release \cup {NoBinary}
  /\ running \in Release \cup {NoBinary}
  /\ \A u \in Updater :
       /\ updater[u].at \in {"away", "prepared", "stop", "link", "rename", "sync", "restart",
            "start", "health", "rollback", "restore", "again", "healthAgain"}
       /\ updater[u].known \in Release \cup {NoBinary}
       /\ updater[u].from \in Release \cup {NoBinary} /\ updater[u].to \in Release \cup {NoBinary}
  /\ report.said \in {"nothing", "refused", "failed", "unchanged", "upgraded", "restored"}
  /\ report.of \in Release \cup {NoBinary} /\ proven \in Release

(* "The live path is never absent", at whatever step the updater is killed,*)
(* and until Apply has said how it ended the version it found is on disk.  *)
NothingLost ==
  /\ live # NoBinary
  /\ \A u \in Updater : Applying(u) => updater[u].from \in {live, prev}

(* What Apply says is what is there: the target after an upgrade, the      *)
(* prior version after "restored" and after a swap that did not happen,    *)
(* installed and running, for as long as no other upgrade has begun.       *)
ReportIsTrue ==
  report.said \in {"upgraded", "restored", "unchanged"} =>
    live = report.of /\ running = report.of

(* Two upgrades of one path do not undo each other: no version older than  *)
(* the last one an Apply said it had installed comes back.                 *)
NoDowngrade == live >= proven

UpgradeSound == NothingLost /\ ReportIsTrue /\ NoDowngrade
=============================================================================
