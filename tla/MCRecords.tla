------------------------------ MODULE MCRecords ------------------------------
(* The records, the jobs and the answers beside the pipelines.  The parts  *)
(* share no state, so nothing is learned from interleaving them: one run   *)
(* explores them all, a behaviour of the one its first state names.        *)
EXTENDS ReplayLedger, PersonErasure, AuditChain, SiteRegistry,
        StaticCohort, ServiceToken, PrincipalStore, ExportLedger,
        BinaryUpgrade, BackupArchive, Rollups, FunnelWalk, MetricReduce

VARIABLE focus

Parts == {"replays", "persons", "audit", "sites", "cohorts", "token",
          "principals", "exports", "upgrade", "backup", "rollups", "funnels",
          "reduce"}

\* A question for the behaviours that ask none.
Unasked == [steps |-> <<CHOOSE type \in FunnelType : TRUE>>, excluded |-> {}, window |-> 0]

\* The parts a behaviour is not about stay in one state.
MCInit ==
  /\ focus \in Parts
  /\ ReplayInit /\ PersonInit /\ AuditInit /\ SiteInit
  /\ CohortInit /\ TokenInit /\ PrincipalInit /\ ExportInit
  /\ UpgradeInit /\ BackupInit /\ RollInit /\ FunnelInit
  /\ MrInit
  /\ focus = "cohorts" \/ members = {}
  /\ focus = "token" \/ tokenRows = {NewRow(0, FALSE)}
  /\ focus = "backup" \/ kv = [k \in BlobKey |-> 0]
  /\ focus = "funnels" \/ fwAsked = Unasked

PartNext ==
  \/ focus = "replays" /\ ReplayNext
  \/ focus = "persons" /\ PersonNext
  \/ focus = "audit" /\ AuditNext
  \/ focus = "sites" /\ SiteNext
  \/ focus = "cohorts" /\ CohortNext
  \/ focus = "token" /\ TokenNext
  \/ focus = "principals" /\ PrincipalNext
  \/ focus = "exports" /\ ExportNext
  \/ focus = "upgrade" /\ UpgradeNext
  \/ focus = "backup" /\ BackupNext
  \/ focus = "rollups" /\ RollNext
  \/ focus = "funnels" /\ FunnelNext
  \/ focus = "reduce" /\ MrNext

Still(part, vars) == IF focus = part THEN TRUE ELSE UNCHANGED vars

MCNext ==
  /\ PartNext
  /\ Still("replays", replayVars) /\ Still("persons", personVars)
  /\ Still("audit", auditVars) /\ Still("sites", siteVars)
  /\ Still("cohorts", cohortVars) /\ Still("token", tokenVars)
  /\ Still("principals", principalVars) /\ Still("exports", exportVars)
  /\ Still("upgrade", upgradeVars) /\ Still("backup", backupVars)
  /\ Still("rollups", rollVars) /\ Still("funnels", funnelVars)
  /\ Still("reduce", mrVars)
  /\ UNCHANGED focus

mcVars == <<replayVars, personVars, auditVars, siteVars, cohortVars,
            tokenVars, principalVars, exportVars, upgradeVars, backupVars,
            rollVars, funnelVars, mrVars, focus>>

MCSpec == MCInit /\ [][MCNext]_mcVars

-----------------------------------------------------------------------------
\* What the other parts promise holds of the one state they stay in.
RecordsTypeOK ==
  /\ focus = "replays" => ReplayTypeOK
  /\ focus = "persons" => PersonTypeOK
  /\ focus = "audit" => AuditTypeOK
  /\ focus = "sites" => SiteTypeOK
  /\ focus = "cohorts" => CohortTypeOK
  /\ focus = "token" => TokenTypeOK
  /\ focus = "principals" => PrincipalTypeOK
  /\ focus = "exports" => ExportTypeOK
  /\ focus = "upgrade" => UpgradeTypeOK
  /\ focus = "backup" => BackupTypeOK
  /\ focus = "rollups" => RollTypeOK
  /\ focus = "funnels" => FunnelTypeOK
  /\ focus = "reduce" => MrTypeOK

(* What a record promises holds of it whatever failed while it was made    *)
(* and whoever made another beside it: the audit chain, an erased person,  *)
(* a replay's batches; what was answered about a row that has no key to    *)
(* keep it: a site and its manager, the list of a cohort, a service token  *)
(* and its revocation, an account and the sessions minted for it; and what *)
(* a job says it did it has done: an export, a backup and its restore, the *)
(* rollups.  (UpgradeSound is checked beside it.)                          *)
RecordsSound ==
  /\ focus = "audit" => AuditSound
  /\ focus = "persons" => ErasureSound
  /\ focus = "replays" => ReplaySound
  /\ focus = "sites" => SitesSound
  /\ focus = "cohorts" => CohortSound
  /\ focus = "token" => TokenSound
  /\ focus = "principals" => PrincipalsSound
  /\ focus = "exports" => ExportSound
  /\ focus = "backup" => BackupSound
  /\ focus = "rollups" => RollupsSound

(* What a query answers is what its question means of the rows there are:  *)
(* a funnel of an entity or a trace, a rate, a quantile.                   *)
AnswersSound ==
  /\ focus = "funnels" => FunnelSound
  /\ focus = "reduce" => ReduceSound
=============================================================================
