SPECIFICATION FairSpec
CHECK_DEADLOCK FALSE
CONSTANTS
  c1 = c1
  c2 = c2
  c3 = c3
  c4 = c4
  e1 = e1
  e2 = e2
  e3 = e3
  k1 = k1
  k2 = k2
  NoKey = NoKey
  Call = {c1, c3}
  Event = {e1, e2, e3}
  CacheKey = {k1, k2}
  Batch <- MCBatch
  Key <- MCTwoKeys
  Size <- MCSize
  MaxSize = 2
  MaxBufferedBytes = 5
  ChunkSize = 1
  CacheMax = 1
  MaxDigestsPerKey = 1
  Lossy = FALSE
  RequireWAL = FALSE
  FaultKind = {"append", "insert", "ambiguous", "lookup", "flush", "checkpoint", "panic", "open"}
  MaxCrashes = 1
INVARIANTS CheckpointCovered AckedRecoverable
PROPERTIES UsesDurableLog AckedIsStored
