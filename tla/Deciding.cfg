SPECIFICATION DecidingSpec
CONSTANTS
  EvalTime = 2
  ObservedTimes = {0, 2, 3}
  FactValues = {0, 1}
  Versions <- SomeVersions
  Clauses <- SomeClauses
  VersionClauses <- SomeConstraints
  Policies <- SomePolicies
  MaxObservations = 2
  CsDevices = {1, 2}
  CsCapacity <- SearchCapacity
  CsProfiles <- SomeProfiles
  CsInputs <- SomeIntents
  CsMixed <- SomeMixes
  CsBudget = 3
  MaxIntents = 2
  MaxHeld = 4
  ApAllocs = {1, 2}
  ApInputs <- SomeReadings
  ApBudget <- TwoActions
  ApMarks <- SomeMarks
  ApIdle <- IdleAfter
  ApFreshness <- MaximumAges
  WindowTime = 2
  DecisionWindow = 2
  MaxApAge = 2
  MaxApRounds = 2
  MaxApChanges = 1
  MaxApTicks = 1
  k1 = k1
  k2 = k2
  Keys = {k1, k2}
  Cooldown = 1
  Hysteresis = 1
  MaxActionsPerWindow = 2
  Window = 3
  BreakerThreshold = 2
  BreakerResetAfter = 2
  Scores = {1, 2}
  Counts = {2}
  MaxTime = 3
  MaxFailures = 1
  MaxFaults = 1
  MaxCrashes = 1
  Previews = 1
SYMMETRY KeySymmetry
INVARIANTS
  
  NeverOverfull
  MatchesFullSearch
  SelectedIsValid
  
  
PROPERTY
  PauseCoversAll
CHECK_DEADLOCK FALSE
