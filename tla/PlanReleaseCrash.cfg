SPECIFICATION MCSpec
CONSTANTS
  N = 2
  MaxCrashes = 1
  Faults <- OnlyDriver
INVARIANT NeverReleasesOccupied
CHECK_DEADLOCK FALSE
