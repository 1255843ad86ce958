CONSTANTS
  PhoneRequests = {"r1", "r2"}
  PhoneChecks = {"k1"}
  PhoneRows = 2
  PhoneTroubles = 1
  Sockets = {"s1", "s2", "s3"}
  Sessions = {"s1", "s2"}
  TokenTime = 3
  TokenTroubles = 1
  LastChannel = 2
  RecorderAttempts = 4
  RecorderRuns = 2
  RecorderTroubles = 3
  AreaPeople = {"u1"}
  AreaLength = 2
  AreaGrace = 1
  AreaEarlyGrace = 0
  AreaSlack = 1
  AreaWindow = 2
  AreaTime = 3
  AreaEntries = 2
  FleetRestarts = {"c1"}
  FleetProbes = {"c2"}
  FleetPlans = 2
  FleetTroubles = 1
  WatchEdits = 2
  WatchOutages = 2
  WatchTroubles = 1
  IssuePrints = {"f1", "f2"}
  IssueCap = 1
  Captures = 3
  SupportReports = {"n1", "n2"}
  Updates = 2
  UploadTroubles = 1
  TunnelCallers = {"c1", "c2"}
  CheckedCallers = {"c1"}
  AddressChecks = {"k1"}
  TunnelStarts = 3
  TunnelCalls = 2
  ApplyTroubles = 1
  CheckTroubles = 2
  ZoneVisits = {"x1", "x2"}
  VisitRetryMax = 3
  VisitTroubles = 2
  ReviewRequests = {"q1", "q2", "q3"}
  FindingKeys <- ThreeFindings
  AlikeFindings <- ThirdIsAlike
  TopicRequests = {"q1", "q2"}
  TopicKinds = {"resolved", "split", "merge"}
  TopicRows = 4
  TopicRuns = 2
  TopicAsks = 2
  TopicDays = 2
  LineConfirm = 2
  LineRepeat = 6
  LineTtl = 1
  LineKeep = 1
  LineFlushers = {"f1", "f2"}
  LineTime = 10
  LineTroubles = 1
  QueueGrace = 2
  QueueFrames = 8
  EvidenceIncidents = 2
  EvidenceLimits = {3}
  EvidenceRunners = {"b1"}
  EvidenceTroubles = 1
  ClipSeenAt <- FourIncidents
  ClipPostRoll = 2
  ClipQueue = 2
  ClipTries = 2
  ClipTroubles = 2
  LatestMigration = 2
  LargerMigrations = {2}
  StartupCopies = 1
  CopiesPerKind = 1
  CopyBudgets = {1, 4}
  CopiesMade = 3
  BackupTroubles = 1
SPECIFICATION Spec
INVARIANTS
  TypeOK AccessSound SignOutSound RecordsAreTrue  ChangeSound AreaSound EvidenceSound
  BackupsSound
CHECK_DEADLOCK FALSE
