SPECIFICATION FairSpec
CONSTANTS
  Plans = {1, 2}
  Failures = {11}
  Details = {"timeout"}
  Retention = 1
  MaxSteps = 1
  MaxSequence = 3
  MaxFaults = 1
  MaxCrashes = 1
  Refusals = 1
INVARIANTS
  OutsideIsDurable
  WatchIsContiguous
PROPERTY PendingIsCommitted
CHECK_DEADLOCK FALSE
