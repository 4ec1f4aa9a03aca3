SPECIFICATION Spec
CONSTANTS
  MaxTime = 2
  Timeout = 3
INVARIANTS
  ReportedSuccessIsChecked
CHECK_DEADLOCK FALSE
