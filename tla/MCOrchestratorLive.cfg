SPECIFICATION FairSpec
CONSTANTS
  NumEpisodes = 2
  UInt64Max = 20
  Faults = {"component", "reset", "resources", "task", "evaluator"}
  Candidates = {}
  QueueBound = 1
INVARIANTS
  FinalizedIsRecorded
PROPERTIES
  TerminatingEnds
  PreparingEnds
  StopEnds
CHECK_DEADLOCK FALSE
