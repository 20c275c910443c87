SPECIFICATION MCSpec
CHECK_DEADLOCK FALSE
CONSTANTS
  a1 = a1  a2 = a2  b1 = b1  b2 = b2  c1 = c1  c2 = c2  d1 = d1  d2 = d2
  e1 = e1  e2 = e2  f1 = f1  f2 = f2  j1 = j1  j2 = j2  k1 = k1  k2 = k2
  n1 = n1  n2 = n2  o1 = o1  o2 = o2  p1 = p1  p2 = p2  p3 = p3  q1 = q1
  r1 = r1  s1 = s1  s2 = s2  t1 = t1  t2 = t2  u1 = u1  u2 = u2  v1 = v1
  v2 = v2  y1 = y1  z1 = z1
  \* ReplayLedger
  ReplaySite = {s1, s2}
  NoSite = NoSite
  Batch = {b1, b2}
  Digest = {d1, d2}
  NoDigest = NoDigest
  Ingester = {n1, n2}
  \* PersonErasure
  Person = {p1, p2, p3}
  NoPerson = NoPerson
  \* AuditChain
  MaxRecords = 4
  CheckpointEvery = 2
  PageSize = 2
  \* SiteRegistry
  Ref = {f1, f2}
  MaxSites = 1
  Caller = {a1, a2}
  Ingested = {1}
  \* StaticCohort
  Entity = {e1, e2}
  ListLimit = 1
  Editor = {a1, a2}
  MaxClock = 1
  MaxMemberVersion = 3
  \* ServiceToken
  TokenVerifier = {v1, v2}
  TokenRevoker = {q1}
  TokenClock = 1
  MaxTokenVersion = 3
  \* PrincipalStore
  LocalId = {t1, t2}
  SsoId = {y1}
  Username = {j1, j2}
  Setup = {z1}
  PrincipalClock = 1
  MaxRowVersion = 2
  MaxAccounts = 2
  MaxSessions = 1
  \* ExportLedger
  Run = {r1}
  Body = {b1, b2}
  Nothing = Nothing
  ExportTries = 2
  \* BinaryUpgrade
  Updater = {u1, u2}
  MaxVersion = 3
  Sick = {2}
  \* BackupArchive
  TableCount = 2
  BlobKey = {k1, k2}
  KvTries = 2
  EngineLeases = {TRUE, FALSE}
  MaxMoment = 1
  MaxUploads = 2
  \* Rollups
  MaxHour = 4
  MaxRollEvents = 3
  MaxLate = 2
  RetainHours = 3
  \* FunnelWalk
  FunnelType = {o1, o2}
  FunnelExcluded = {{}, {o2}}
  MaxFunnelSteps = 3
  MaxFunnelEvents = 4
  MaxFunnelTime = 2
  \* MetricReduce
  MrSeries = {c1, c2}
  MrBuckets = 3
  MrQuantiles = {1, 2}
  MrWhole = 2
  MrStep = 2
  MaxMrObservations = 2
  MaxMrScrapes = 3
INVARIANTS RecordsTypeOK RecordsSound AnswersSound UpgradeSound
