SPECIFICATION Spec
CHECK_DEADLOCK FALSE
CONSTANTS
  c1 = c1
  c2 = c2
  Call = {c1, c2}
  FrameSize = {2}
  MaxBytes = 4
  MaxTotalBytes = 6
  Lossy = FALSE
  FaultKind = {"sync"}
  MaxCrashes = 1
INVARIANT AckedDurable
