------------------------------ MODULE MCSignals ------------------------------
(* What follows an error, and the queues of the SDKs.  The parts           *)
(* share no state, so nothing is learned from interleaving them: one run   *)
(* explores them all, a behaviour of the one its first state names.        *)
EXTENDS IssueMerges, IssueLifecycle, IssueDispatch, IssueEmitter,
        SpikeGuard, SpikeDetector, SdkQueue, SdkMetrics, PySdkQueue,
        BrowserQueue

VARIABLE focus

Parts == {"merges", "lifecycle", "dispatch", "emitter", "guard", "detector",
          "sdk", "metrics", "python", "browser"}

\* The parts a behaviour is not about stay in one state.
MCInit ==
  /\ focus \in Parts
  /\ MergeInit /\ LifecycleInit /\ DispatchInit /\ EmInit
  /\ SpikeInit /\ DetectorInit /\ SdkInit /\ MetricInit
  /\ PyInit /\ BrInit
  /\ focus = "sdk" \/ signal = "logs"

PartNext ==
  \/ focus = "merges" /\ MergeNext
  \/ focus = "lifecycle" /\ LifecycleNext
  \/ focus = "dispatch" /\ DispatchNext
  \/ focus = "emitter" /\ EmNext
  \/ focus = "guard" /\ SpikeNext
  \/ focus = "detector" /\ DetectorNext
  \/ focus = "sdk" /\ SdkNext
  \/ focus = "metrics" /\ MetricNext
  \/ focus = "python" /\ PyNext
  \/ focus = "browser" /\ BrNext

Still(part, vars) == IF focus = part THEN TRUE ELSE UNCHANGED vars

MCNext ==
  /\ PartNext
  /\ Still("merges", mergeVars) /\ Still("lifecycle", lifecycleVars)
  /\ Still("dispatch", dispatchVars) /\ Still("emitter", emVars)
  /\ Still("guard", spikeVars) /\ Still("detector", detectorVars)
  /\ Still("sdk", sdkVars) /\ Still("metrics", metricVars)
  /\ Still("python", pyVars) /\ Still("browser", brVars)
  /\ UNCHANGED focus

mcVars == <<mergeVars, lifecycleVars, dispatchVars, emVars, spikeVars,
            detectorVars, sdkVars, metricVars, pyVars, brVars, focus>>

MCSpec == MCInit /\ [][MCNext]_mcVars

-----------------------------------------------------------------------------
\* What the other parts promise holds of the one state they stay in.
SignalsTypeOK ==
  /\ focus = "merges" => MergeTypeOK
  /\ focus = "lifecycle" => LifecycleTypeOK
  /\ focus = "dispatch" => DispatchTypeOK
  /\ focus = "emitter" => EmTypeOK
  /\ focus = "guard" => SpikeTypeOK
  /\ focus = "detector" => DetectorTypeOK
  /\ focus = "sdk" => SdkTypeOK
  /\ focus = "metrics" => MetricTypeOK
  /\ focus = "python" => PyTypeOK
  /\ focus = "browser" => BrTypeOK

(* An issue is found where its merges say and as its status says: merge.go *)
(* and issues.go, whose caches are read side by side with the rows; and    *)
(* what spike.go drops of its events and alerts on is what its caps say.   *)
IssuesSound ==
  /\ focus = "merges" => MergesSound
  /\ focus = "lifecycle" => LifecycleSound
  /\ focus = "guard" => SpikeSound
  /\ focus = "detector" => DetectorSound

(* What was handed over is delivered or accounted for: the queue of the    *)
(* issue dispatcher and that of the alert emitter, and the queues of the   *)
(* three SDKs.                                                             *)
DeliverySound ==
  /\ focus = "dispatch" => DispatchSound
  /\ focus = "emitter" => EmitterSound
  /\ focus = "sdk" => SdkSound
  /\ focus = "metrics" => MetricsSound
  /\ focus = "python" => PySdkSound
  /\ focus = "browser" => BrowserSound
=============================================================================
