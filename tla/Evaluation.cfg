SPECIFICATION FairSpec
CONSTANTS
  MaxTime = 2
  Timeout = 2
INVARIANTS
  EvalTypeOK
  VerdictIsJustified
  RecordedSuccessIsInside
  RecordedMetricsAgree
PROPERTIES
  DueEpisodeEnds
  ReportedEpisodeEnds
CHECK_DEADLOCK FALSE
