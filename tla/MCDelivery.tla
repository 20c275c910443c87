----------------------------- MODULE MCDelivery -----------------------------
(* The parts that deliver what was handed to them, in one run: alerts with *)
(* their outbox, the dispatcher of issue notices and the Go SDK's queues.  *)
(* A behaviour is that of the instance its first state names; of alerts    *)
(* there are four: a rule that notifies a hook whose requests fail, with   *)
(* stops and with retention, a cron that does and marks that fail, and     *)
(* both with two incidents and nobody to notify.                           *)
EXTENDS AlertEdges, IssueDispatch, SdkQueue

CONSTANTS rule1, cron1, hook1

VARIABLE instance

Rules == INSTANCE AlertEdges WITH
  Cron <- {}, NotifyFault <- {"post"}, MaxNotifyCrashes <- 0, MaxNotifyPrunes <- 0

Pruned == INSTANCE AlertEdges WITH
  Cron <- {}, NotifyFault <- {"post"}, MaxNotifyCrashes <- 0, MaxNotifyStops <- 0

Crons == INSTANCE AlertEdges WITH
  Rule <- {}, NotifyFault <- {"mark"}

Incidents == INSTANCE AlertEdges WITH
  Hook <- {}, MaxIncidents <- 2, MaxNotifyStops <- 0

AlertPart == <<notifyVars, alertVars>>

\* The parts a behaviour is not about stay in one state.
MCInit ==
  /\ \/ instance \in {"rules", "dispatch", "sdk"} /\ Rules!AlertInit
     \/ instance = "pruned" /\ Pruned!AlertInit
     \/ instance = "crons" /\ Crons!AlertInit
     \/ instance = "incidents" /\ Incidents!AlertInit
  /\ DispatchInit /\ SdkInit
  /\ instance = "sdk" \/ signal = "logs"

AlertPartNext ==
  \/ instance = "rules" /\ Rules!AlertNext
  \/ instance = "pruned" /\ Pruned!AlertNext
  \/ instance = "crons" /\ Crons!AlertNext
  \/ instance = "incidents" /\ Incidents!AlertNext

MCNext ==
  /\ \/ AlertPartNext /\ UNCHANGED <<dispatchVars, sdkVars>>
     \/ instance = "dispatch" /\ DispatchNext /\ UNCHANGED <<AlertPart, sdkVars>>
     \/ instance = "sdk" /\ SdkNext /\ UNCHANGED <<AlertPart, dispatchVars>>
  /\ UNCHANGED instance

(* The constants of the configuration allow what each instance of the      *)
(* alerts does, so the fairness of NotifyOutbox is that of all four.  In   *)
(* the first state of a part, where it stays when the behaviour is of      *)
(* another, nothing that the fairness of the part names is enabled.        *)
MCSpec ==
  /\ MCInit /\ [][MCNext]_<<AlertPart, dispatchVars, sdkVars, instance>>
  /\ NotifyFairness /\ DispatchFairness /\ SdkFairness

-----------------------------------------------------------------------------
(* The dispatcher and the SDK come to the end of their shutdown: the queue *)
(* is drained or the integrations cut off, whatever they do, and the       *)
(* goroutine that carries out the SDK's ends even when its deadline has    *)
(* passed and others keep flushing.                                        *)
Settling == dispatch = "stopping" \/ sdk \in {"closing", "drained", "flushed"}
ShutdownsEnd == Settling ~> ~Settling
=============================================================================
