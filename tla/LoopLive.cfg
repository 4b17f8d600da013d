SPECIFICATION FairSpec
CONSTANTS
  k1 = k1
  fast = fast
  Keys = {k1}
  Kinds = {fast}
  MaxGeneration = 4
  MaxVersion = 2
  MaxEvents = 1
  MaxPanics = 1
  MaxRetries = 2
  MaxCloses = 1
PROPERTY PublishedIsHandled
CHECK_DEADLOCK FALSE
