SPECIFICATION Spec
CONSTANTS
  a1 = a1
  a2 = a2
  p1 = p1
  cam = cam
  Alerts = {a1}
  Phones = {p1}
  Key <- OneKey
  Bypass = {}
  Cooldown = 1
  MaxTime = 1
  MaxTokens = 2
  MaxAccounts = 2
INVARIANTS TypeOK ShownAtMostTwice ReportIsTrue RevokedHearsNothing
PROPERTIES LiveTokenKept
CHECK_DEADLOCK FALSE
