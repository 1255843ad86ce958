SPECIFICATION GatewayFairSpec
CONSTANTS
  e1 = e1
  s1 = s1
  Starters = {e1}
  Stoppers = {s1}
  MaxChildren = 2
  MaxCrashes = 1
INVARIANTS GatewayTypeOK NoChildLost OneSupervisor
PROPERTIES CallsReturn Recovers
CHECK_DEADLOCK FALSE
