SPECIFICATION MCSpec
CONSTANTS
  e1 = e1  e2 = e2  f = f  g = g  Stats = Stats  None = None
  Export = {e1}
  Seed = {}
  Found <- MCOne
  Budget = {2}
  Now = {1}
  FaultKind = {}
  MaxCrashes = 0
  MaxStops = 0
  MaxPrunes = 1
PROPERTY PrunedIsGone
CHECK_DEADLOCK FALSE
