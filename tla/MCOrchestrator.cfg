SPECIFICATION HistorySpec
CONSTANTS
  NumEpisodes = 2
  UInt64Max = 20
  Faults = {"component", "reset", "resources", "task", "evaluator", "recorder"}
  Candidates = {"SUCCESS", "TIMEOUT"}
  QueueBound = 1
INVARIANTS
  OrchTypeOK
  MotionIsPrepared
  TopicIsCurrent
  CompleteMarkerTruthful
  InfrastructureStops
  
PROPERTIES
  KeepsLedger
CHECK_DEADLOCK FALSE
