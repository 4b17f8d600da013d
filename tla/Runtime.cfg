SPECIFICATION SideSpec
CONSTANTS
  N = 3
  MaxCrashes = 2
  Faults <- AllFaults
  k1 = k1
  k2 = k2
  fast = fast
  slow = slow
  Keys = {k1, k2}
  Kinds = {fast, slow}
  MaxGeneration = 2
  u1 = u1
  u2 = u2
  Units = {u1, u2}
  MaxIncarnations = 2
  MaxResyncs = 1
  Commands = {"stop"}
  Endings = {"none", "false"}
  MayExpire = {"expire"}
INVARIANTS
  NoEffectBeforeDurableApplying
  SettledMatchesEffects
  NoKeyLost
PROPERTIES
  ImplementsAtomicPlan
  EventuallySettled
  TicksUntilStopped
  FreedIsTerminal
  StopRetiresRun
CHECK_DEADLOCK FALSE
