SPECIFICATION CpSpec
CONSTANTS
  CpKeys = {"a", "b"}
  MaxCpVersion = 2
  MaxCpFaults = 1
  MaxCpCrashes = 2
INVARIANT AcceptedIsDurable
CHECK_DEADLOCK FALSE
