SPECIFICATION Spec
CONSTANTS
  Configured <- MCConfigured
  Metrics <- MCMetrics
  Trajectories <- MCTrajectories
  Absent = Absent
  Directory = Directory
  Texts = {"plain"}
  LineBreaking = {}
  MaxEvents = 1
  MaxFailures = 1
  EntriesSynced = TRUE
INVARIANTS
  ResTypeOK
  MarkersAreTrue
  InterruptedReadable
PROPERTIES
  KeepsJournal
CHECK_DEADLOCK FALSE
