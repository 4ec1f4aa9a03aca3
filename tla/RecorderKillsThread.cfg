SPECIFICATION FairSpec
CONSTANTS
  NumEpisodes = 1
  UInt64Max = 20
  Faults = {"recorder"}
  Candidates = {}
  QueueBound = 0
PROPERTY
  TerminatingEnds
CHECK_DEADLOCK FALSE
