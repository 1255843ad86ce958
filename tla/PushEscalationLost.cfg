SPECIFICATION FairSpec
CONSTANTS
  a1 = a1
  a2 = a2
  f1 = f1
  b1 = b1
  cam = cam
  Alerts = {a1}
  Phones = {f1, b1}
  Requests = {r1}
  Loop = loop
  Kind <- KindNight
  Key <- OneKey
  InitTier <- TwoAndOne
  Delay = 1
  Cooldown = 1
  NoticeWithin = 1
  OpenFor = 2
  MaxAlerts = 1
  MaxTroubles = 2
  MaxRepeats = 1
  MaxTime = 4
  MaxCrashes = 1
  MaxEdits = 0
  MaxFaults = 0
PROPERTY EscalationIsSent
CHECK_DEADLOCK FALSE
