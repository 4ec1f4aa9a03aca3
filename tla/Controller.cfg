SPECIFICATION CtlSpec
CONSTANTS
  NumEpisodes = 3
  UInt64Max = 20
INVARIANTS
  CtlTypeOK
  CompletedInOrder
PROPERTIES
  SnapshotsProgress
  KeepsLedger
