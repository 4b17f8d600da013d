SPECIFICATION SideSpec
CONSTANTS
  k1 = k1
  fast = fast
  slow = slow
  Keys = {k1}
  Kinds = {fast, slow}
  MaxGeneration = 2
  MaxVersion = 2
  MaxEvents = 1
  MaxPanics = 0
  MaxRetries = 1
  MaxCloses = 0
  d1 = d1
  d2 = d2
  ClDevices = {d1, d2}
  a1 = a1
  a2 = a2
  ClRuns = {a1, a2}
  p1 = p1
  p2 = p2
  ClPlans = {p1, p2}
  Dims = {"x"}
  ClCapacity <- DeviceCapacity
  ClSizes <- RequestSizes
  ClUnits = 1
  MaxClVersion = 1
  MaxClAllocs = 2
  MaxRefreshes = 1
  CpKeys = {"a", "b"}
  MaxCpVersion = 2
  MaxCpFaults = 1
  MaxCpCrashes = 2
INVARIANTS
  NothingIsStranded
  LedgerBalances
  
  RecoversLastSave
PROPERTY
  PendingNeverRegresses
CHECK_DEADLOCK FALSE
