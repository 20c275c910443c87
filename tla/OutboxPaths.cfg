SPECIFICATION MCSpec
CONSTANTS
  e1 = e1  e2 = e2  f = f  g = g  Stats = Stats  None = None
  Export = {e1}
  Seed = {e1}
  Found <- MCTwo
  Budget = {1, 2}
  Now = {0, 1}
  FaultKind = {"ingest", "answer", "handler", "disposition", "timeout"}
  MaxCrashes = 1
  MaxStops = 1
  MaxPrunes = 1
INVARIANTS TypeOK DerivedOrKept OvercountBounded
PROPERTIES SettledForGood AckedIsDerived
CHECK_DEADLOCK FALSE
