SPECIFICATION FairSpec
CONSTANTS
  c1 = c1
  c2 = c2
  c3 = c3
  c4 = c4
  i1 = i1
  i2 = i2
  f1 = f1
  f2 = f2
  Calls <- MCCalls
  Ids <- MCIds
  Fingerprints <- MCFingerprints
  Capacity = 1
INVARIANTS
  GuardTypeOK
  OneExecutionPerId
  ReplaysItsOwnRequest
  MemoryBounded
PROPERTIES
  EveryCallEnds
CHECK_DEADLOCK FALSE
