SPECIFICATION ControlSpec
CONSTANTS
  c1 = c1
  Callers = {c1}
  k1 = k1
  Keys = {k1}
  NoKey = NoKey
  Commands = {"start", "pause", "resume", "stop", "terminate", "retry"}
  MaxOps = 2
  MaxCreated = 1
  MaxAttempts = 2
  MaxReports = 1
  MaxRestarts = 1
  r1 = r1
  r2 = r2
  LogRuns = {r1, r2}
  AnyRun = AnyRun
  WatchSlack = 1
  PageLimit = 2
  MaxLog = 3
  MaxDiskFaults = 1
  MaxLogCrashes = 1
  OpKeys = {k1}
  OpLength = 2
  MaxOpPauses = 1
  MaxOpCrashes = 1
  BkBundles = {1}
  BkRequests = {"r1", "r2"}
  BkActions = {"pause", "resume", "stop"}
  MaxBkGen = 2
  MaxBkMoves = 1
  MaxBkFaults = 1
  MaxBkCrashes = 1
  GpuDevices = {"g1", "g2"}
  MigDevices = {"m1"}
  HamiDevices = {"h1", "h2"}
  BpUnits = {0, 125, 1000, 2000}
  MaxPreferred = 2
  MaxIds = 2
  MaxBpMoves = 5
  WkIncarnations = {1, 2}
  WkGeneration <- WorkerGenerations
  WkCooperative = {2}
  p1 = p1
  WkProcs = {p1}
  WkKeys = {"k1"}
  WkOps = {"offload", "resume", "stop"}
  MaxWkFaults = 1
  MaxWkCrashes = 1
  MaxWkReports = 2
  Rebinds = {1, 2}
  MigHome = 1
  MigTarget <- MigTargets
  MaxMgFaults = 1
  MaxMgCrashes = 1
INVARIANTS
  ReadersSawTheLog
  NoDecisionSkipped
  
  CommittedIsDurable
  RunsWhereBound
  SucceededIsReal
  
  LagIsRecorded
PROPERTIES
  RecoveredIsResolved
  CleanupIsEarned
  AnsweredIsReal
CHECK_DEADLOCK FALSE
