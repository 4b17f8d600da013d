SPECIFICATION Spec
CONSTANTS
  r1 = r1
  r2 = r2
  Reports = {r1, r2}
  ReportStates = {"RUNNING", "TERMINATED"}
  MaxGeneration = 2
  MaxActs = 2
  MaxResyncs = 1
  MaxFaults = 1
  MaxCrashes = 1
  MaxUpsets = 2
SYMMETRY ReportSymmetry
INVARIANTS
  AcknowledgedIsSettled
  ProjectionAgrees
CHECK_DEADLOCK FALSE
