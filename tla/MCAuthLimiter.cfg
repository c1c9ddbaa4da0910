SPECIFICATION Spec
CONSTANTS
  Thread = {th1, th2}
  Key = {k1, k2}
  Client = {c1}
  NoClient = NoClient
  Window = 1
  Block = 2
  MaxFailures = 2
  MaxBuckets = 2
  MaxDelay = 1
  MaxClock = 2
  MaxAttempts = 4
  MaxChanges = 1
SYMMETRY Symmetry
INVARIANTS ValidKeyAccepted LateLookupsBounded
PROPERTIES OwnClientSurvives ImplementsFailureLimiter
CHECK_DEADLOCK FALSE
