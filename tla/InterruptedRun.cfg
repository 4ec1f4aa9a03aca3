SPECIFICATION Spec
CONSTANTS
  Configured <- MCConfigured
  Metrics <- MCMetrics
  Trajectories <- MCTrajectories
  Absent = Absent
  Directory = Directory
  Texts = {"plain"}
  LineBreaking = {}
  MaxEvents = 1
  MaxFailures = 0
  EntriesSynced = TRUE
INVARIANTS
  InterruptedRunsParse
CHECK_DEADLOCK FALSE
