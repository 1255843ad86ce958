SPECIFICATION Spec
CONSTANTS
  s1 = s1
  s2 = s2
  Sessions = {s1, s2}
  Limit = 1
  MaxChanges = 1
  MaxSettings = 1
  MaxFaults = 1
  MaxEvents = 3
INVARIANTS TypeOK EndingIsEnded SlotsBounded
PROPERTIES OwnedStreamKept
CHECK_DEADLOCK FALSE
