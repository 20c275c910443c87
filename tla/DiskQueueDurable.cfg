SPECIFICATION Spec
SYMMETRY Symmetry
CHECK_DEADLOCK FALSE
CONSTANTS
  c1 = c1
  c2 = c2
  c3 = c3
  Call = {c1, c2, c3}
  FrameSize = {2, 3}
  MaxBytes = 4
  MaxTotalBytes = 6
  Lossy = FALSE
  FaultKind = {"create", "dir", "flush", "close", "remove", "cpwrite"}
  MaxCrashes = 2
INVARIANTS TypeOK AckedDurable CheckpointNamesLog
PROPERTY ImplementsDurableLog
