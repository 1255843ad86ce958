SPECIFICATION GatewaySpec
CONSTANTS
  e1 = e1
  s1 = s1
  Starters = {e1}
  Stoppers = {s1}
  MaxChildren = 2
  MaxCrashes = 1
PROPERTIES RelaunchedIsStopped
CHECK_DEADLOCK FALSE
