--------------------------- MODULE MCOutboxPaths ---------------------------
(* Instances of Outbox: both exports show the fingerprint f, e2 also g.    *)
(* One run explores two of them, a behaviour of the one its first state    *)
(* names: an export acknowledged as soon as its transaction has committed, *)
(* in a process that crashes and a table that is pruned, and an export of  *)
(* the seed path, in a process that is stopped.                            *)
EXTENDS Outbox

CONSTANTS e1, e2, f, g

MCOne == [e \in Export |-> {f}]
MCTwo == [e \in Export |-> {f, g}]

VARIABLE seeded

Plain == INSTANCE Outbox WITH
  Seed <- {}, MaxStops <- 0, FaultKind <- {"ingest", "answer", "handler", "disposition"}

Seeded == INSTANCE Outbox WITH
  Budget <- {2}, Now <- {1}, MaxCrashes <- 0, MaxPrunes <- 0,
  FaultKind <- {"handler", "timeout"}

MCInit ==
  \/ seeded = FALSE /\ Plain!Init
  \/ seeded = TRUE /\ Seeded!Init

MCNext ==
  /\ \/ ~seeded /\ Plain!Next
     \/ seeded /\ Seeded!Next
  /\ UNCHANGED seeded

(* The constants of the configuration allow what either instance does, so  *)
(* the fairness of Outbox is that of both.                                 *)
MCSpec == MCInit /\ [][MCNext]_<<vars, seeded>> /\ Fairness
=============================================================================
