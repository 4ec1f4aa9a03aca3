SPECIFICATION AttentiveSpec
CONSTANTS
  NumEpisodes = 2
  WatchdogSteps = 1
  MaxFaults = 0
  LateSnapshots = FALSE
  None = None
PROPERTY
  EndsAreObeyed
CHECK_DEADLOCK FALSE
