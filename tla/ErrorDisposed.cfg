SPECIFICATION FairSpec
CONSTANTS
  c1 = c1  c2 = c2  c3 = c3  c4 = c4  i1 = i1  i2 = i2  p1 = p1  p2 = p2
  Call = {c1, c3, c4}
  EventId = {i1, i2}
  NoId = NoId
  Absent = Absent
  Content = {p1, p2}
  Identity <- MCReuse
  Digest <- MCDigest
  Size <- MCSize
  MaxSize = 2
  MaxBytes = 2
  CacheMax = 1
  Unreadable = {}
  Stuck = {c4}
  Lossy = FALSE
  RequireWAL = FALSE
  FaultKind = {"flush", "apply", "panic", "checkpoint", "open"}
  MaxCrashes = 1
INVARIANTS AppliedOnce CheckpointFinal AckedDisposed
PROPERTIES UsesDurableLog AckedIsDisposed
CHECK_DEADLOCK FALSE
