SPECIFICATION MCSpec
CHECK_DEADLOCK FALSE
CONSTANTS
  c1 = c1  c2 = c2  c3 = c3  c4 = c4  i1 = i1  i2 = i2  p1 = p1  p2 = p2
  d1 = d1  d2 = d2  d3 = d3  e1 = e1  e2 = e2  e3 = e3  k1 = k1
  Call = {c1, c2, c3}
  EventId = {i1, i2}
  NoId = NoId
  NoKey = NoKey
  Absent = Absent
  Content = {p1, p2}
  Identity <- MCTwoIds
  Digest <- MCDigest
  Size <- MCSize
  MaxSize = 2
  MaxBytes = 2
  CacheMax = 1
  Unreadable = {c3}
  Stuck = {}
  Lossy = FALSE
  RequireWAL = FALSE
  FaultKind = {"append", "flush", "ambiguous", "thinned", "spool", "open"}
  MaxCrashes = 1
INVARIANTS BuffersTypeOK LogKept BudgetsExact RowsOnce
