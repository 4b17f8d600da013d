SPECIFICATION FairSpec
CONSTANTS
  k1 = k1
  fast = fast
  Keys = {k1}
  Kinds = {fast}
  MaxGeneration = 4
  MaxVersion = 1
  MaxEvents = 0
  MaxPanics = 0
  MaxRetries = 2
  MaxCloses = 0
PROPERTY ExpiredIsForgotten
CHECK_DEADLOCK FALSE
