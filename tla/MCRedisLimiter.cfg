SPECIFICATION Spec
CONSTANTS
  Worker = {w1, w2}
  Key = {k1, k2}
  Client = {c1}
  NoClient = NoClient
  Window = 1
  Block = 2
  MaxFailures = 2
  MaxClock = 2
  MaxAttempts = 3
  MaxChanges = 1
SYMMETRY Symmetry
INVARIANTS LateLookupsBounded
PROPERTIES ValidKeyNotRefused ImplementsFailureLimiter
CHECK_DEADLOCK FALSE
