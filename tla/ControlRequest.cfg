SPECIFICATION FairSpec
CONSTANTS
  Requests = {r1, r2, r3}
INVARIANTS
  ReqTypeOK
  AnswersAreTrue
  RequestInv
PROPERTIES
  RequestsAreAtomic
  EveryCallReturns
CHECK_DEADLOCK FALSE
