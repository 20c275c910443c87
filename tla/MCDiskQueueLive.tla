-------------------------- MODULE MCDiskQueueLive --------------------------
(* Two queues explored by one run: a durable one whose disk fails while    *)
(* callers wait for their commit, and a lossy one with a crash.  Which of  *)
(* the two a behaviour is about is fixed by its first state, so the run    *)
(* visits the sum of the two state spaces.                                 *)
EXTENDS DiskQueue

CONSTANTS c1, c2, c3

VARIABLE lossy   \* the behaviour is about the lossy queue

LossyQueue == INSTANCE DiskQueue WITH
  Lossy <- TRUE, MaxBytes <- 3, FrameSize <- {3},
  FaultKind <- {"dir", "flush"}, MaxCrashes <- 1

MCInit ==
  \/ lossy = FALSE /\ Init
  \/ lossy = TRUE /\ LossyQueue!Init

MCNext ==
  /\ \/ ~lossy /\ Next
     \/ lossy /\ LossyQueue!Next
  /\ UNCHANGED lossy

(* Fairness of both queues, on the actions of the one that runs.           *)
mcvars == <<vars, lossy>>

MCFairness ==
  /\ WF_vars((~lossy /\ CommitterWake) \/ (lossy /\ LossyQueue!CommitterWake))
  /\ WF_vars((~lossy /\ SyncGroup) \/ (lossy /\ LossyQueue!SyncGroup))
  /\ WF_vars((~lossy /\ CommitterStop) \/ (lossy /\ LossyQueue!CommitterStop))
  /\ WF_vars((~lossy /\ FsyncTick) \/ (lossy /\ LossyQueue!FsyncTick))
  /\ WF_vars((~lossy /\ Open) \/ (lossy /\ LossyQueue!Open))
  /\ WF_vars((~lossy /\ Attach) \/ (lossy /\ LossyQueue!Attach))
  /\ \A c \in Call :
       /\ WF_vars((~lossy /\ WaitCommit(c)) \/ (lossy /\ LossyQueue!WaitCommit(c)))
       /\ WF_vars((~lossy /\ Signal(c)) \/ (lossy /\ LossyQueue!Signal(c)))

MCSpec == MCInit /\ [][MCNext]_mcvars /\ MCFairness

(* What the disk high-water bounds (CapOvershoot) is promised of the       *)
(* durable queue only: a lossy one rolls past the cap and drops (queue.go).*)
DurableCapOvershoot == ~lossy => CapOvershoot
=============================================================================
