SPECIFICATION MCSpec
CHECK_DEADLOCK FALSE
CONSTANTS
  c1 = c1
  c2 = c2
  c3 = c3
  Call = {c1, c2, c3}
  FrameSize = {2, 3}
  MaxBytes = 4
  MaxTotalBytes = 4
  Lossy = FALSE
  FaultKind = {"flush", "sync"}
  MaxCrashes = 0
INVARIANT DurableCapOvershoot
PROPERTIES WaitersResolved DropsAreCounted LossyWindowCloses
