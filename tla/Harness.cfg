SPECIFICATION FairSpec
CONSTANTS
  NumEpisodes = 2
  WatchdogSteps = 1
  MaxFaults = 1
  LateSnapshots = TRUE
  None = None
INVARIANTS
  HarnessTypeOK
  ObeysItsOwnRun
  PreparedBeforeRun
PROPERTIES
  StopsForGood
  ComesToRest
CHECK_DEADLOCK FALSE
