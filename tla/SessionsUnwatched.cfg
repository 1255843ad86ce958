SPECIFICATION Spec
CONSTANTS
  s1 = s1
  s2 = s2
  Sessions = {s1, s2}
  Limit = 1
  MaxChanges = 0
  MaxSettings = 1
  MaxFaults = 0
  MaxEvents = 1
INVARIANTS ReaperWatches
CHECK_DEADLOCK FALSE
