SPECIFICATION FairSpec
CONSTANTS
  Cameras = {"c1"}
  Callers = {"loop", "request"}
  Loop = "loop"
  Cap = 1
  MaxChanges = 1
  MaxFaults = 1
INVARIANTS TypeOK SlotsSound WorkersMatch
PROPERTIES HoldEnds
CHECK_DEADLOCK FALSE
