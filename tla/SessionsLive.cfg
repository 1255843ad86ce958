SPECIFICATION FairSpec
CONSTANTS
  s1 = s1
  s2 = s2
  Sessions = {s1, s2}
  Limit = 1
  MaxChanges = 1
  MaxSettings = 0
  MaxFaults = 1
  MaxEvents = 1
PROPERTIES SlotReleased OffIsCut EndedIsCut OldPictureIsCut
CHECK_DEADLOCK FALSE
