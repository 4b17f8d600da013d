SPECIFICATION FairSpec
CONSTANTS
  Observers = {"rpc"}
  Executors = {"executor"}
  Workers = {"worker"}
  Retention = 1
  MaxEvents = 6
  MaxMalformed = 1
  MaxReconnects = 2
INVARIANT PoisonedIsClosed
PROPERTIES
  StreamContiguous
  StopsOnlyEntangled
CHECK_DEADLOCK FALSE
