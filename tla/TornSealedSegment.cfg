SPECIFICATION Spec
CHECK_DEADLOCK FALSE
CONSTANTS
  c1 = c1
  c2 = c2
  Call = {c1, c2}
  FrameSize = {2}
  MaxBytes = 2
  MaxTotalBytes = 4
  Lossy = FALSE
  FaultKind = {"flush"}
  MaxCrashes = 1
INVARIANT ReplayNeverRefused
