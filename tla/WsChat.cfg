SPECIFICATION FairSpec
CONSTANTS
  Conns = {alice, bob}
  MaxIterations = 1
  MaxCalls = 2
  MaxRequests = 2
  MaxDepth = 2
  MaxGeneration = 2
CHECK_DEADLOCK FALSE
INVARIANT TypeOK
INVARIANT OwnApproval
INVARIANT ContextOutlivesRuns
PROPERTY ExpiredDoesNothing
PROPERTY Drains
