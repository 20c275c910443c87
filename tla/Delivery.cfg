SPECIFICATION MCSpec
CONSTANTS
  rule1 = rule1  cron1 = cron1  hook1 = hook1
  Rule = {rule1}
  Cron = {cron1}
  Hook = {hook1}
  MaxIncidents = 1
  Delivery <- AllDeliveries
  NotifyBudget = 2
  NotifyNow = {1}
  NotifyFault = {"post", "mark"}
  AlertFault = {"tx"}
  MaxMarkFaults = 1
  MaxNotifyCrashes = 1
  MaxNotifyStops = 1
  MaxNotifyPrunes = 1
  x1 = x1  w1 = w1  w2 = w2  w3 = w3
  i1 = i1
  Topic = {i1}
  Integration = {x1}
  Worker = {w1, w2, w3}
  DispatchSlots = 2
  DispatchQueue = 1
  PerHour = 1
  MaxNotices = 3
  MaxEntries = 2
  QueueLimit = 2
  ChunkLimit = 2
  SendAttempts = 3
INVARIANTS AlertTypeOK OverdeliveryBounded OpeningFirst
PROPERTIES NotifySettledFinal EdgesOnce NotifySettles ShutdownsEnd
CHECK_DEADLOCK FALSE
