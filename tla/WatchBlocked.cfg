CONSTANTS
  Observers = {"rpc"}
  Executors = {"executor"}
  Workers = {"worker"}
  Retention = 1
  MaxEvents = 6
  MaxMalformed = 0
  MaxReconnects = 0
SPECIFICATION FairSpec
PROPERTIES WatchTails
CHECK_DEADLOCK FALSE
