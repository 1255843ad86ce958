SPECIFICATION FairSpec
CONSTANTS
  a1 = a1
  a2 = a2
  p1 = p1
  cam = cam
  Alerts = {a1, a2}
  Phones = {p1}
  Key <- OneKey
  Bypass = {}
  Cooldown = 1
  MaxTime = 0
  MaxTokens = 1
  MaxAccounts = 1
INVARIANTS OneMint
PROPERTIES PushEnds
CHECK_DEADLOCK FALSE
