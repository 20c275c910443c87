SPECIFICATION MCSpec
CHECK_DEADLOCK FALSE
CONSTANTS
  cc = cc  g1 = g1  g2 = g2  gg = gg  h1 = h1  h2 = h2  h3 = h3  hh = hh
  i1 = i1  i2 = i2  i3 = i3  l1 = l1  m1 = m1  m2 = m2  u1 = u1  w1 = w1
  w2 = w2  w3 = w3  x1 = x1
  \* IssueMerges
  Issue = {i1, i2, i3}
  NoIssue = NoIssue
  Merger = {m1, m2}
  Lookup = {l1}
  MaxMergeDepth = 1
  MergeFault = {"read", "put", "answer"}
  \* IssueLifecycle
  Group = {g1, g2}
  NoGroup = NoGroup
  \* IssueDispatch
  Topic = {i1}
  Integration = {x1}
  Worker = {w1, w2, w3}
  DispatchSlots = 2
  DispatchQueue = 1
  PerHour = 1
  MaxNotices = 3
  \* IssueEmitter
  EmIssue = {i1, i2}
  EmHook = {1, 2}
  EmQueueSize = 1
  EmSettle = 1
  EmSeqLimit = 1
  MaxEmEvents = 3
  MaxEmTime = 2
  \* SpikeGuard
  Fingerprint = {h1, h2, h3}
  IssueCap = 2
  SiteCap = 2
  NewIssueCap = 1
  SampleN = 2
  MaxTrackedFingerprints = 2
  MaxWindowEvents = 4
  \* SpikeDetector
  SpikeIssue = {i1, i2}
  WindowSpan = 2
  TrailWindows = 2
  MaxTracked = 1
  SpikeMin = 1
  SpikeFactor = 2
  MaxSpikeTime = 10
  MaxBurst = 2
  \* SdkQueue
  MaxEntries = 3
  QueueLimit = 2
  ChunkLimit = 2
  SendAttempts = 3
  \* SdkMetrics
  Counter = {cc}
  Gauge = {gg}
  Histogram = {hh}
  MaxObservations = 2
  SeriesLimit = 2
  ByteLimit = 3
  MetricTries = 3
  \* PySdkQueue
  PyUser = {u1}
  MaxPyRecords = 3
  PyQueueLimit = 3
  PyChunk = 2
  PyTries = 2
  \* BrowserQueue
  MaxBrEvents = 4
  BrQueueEvents = 3
  BrQueueBytes = 5
  BrRequests = 3
  BrPerRequest = 2
  BrUnits = 2
  BrTries = 1
INVARIANTS SignalsTypeOK IssuesSound DeliverySound
