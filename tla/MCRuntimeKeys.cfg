SPECIFICATION Spec
CONSTANTS
  Alike <- MCAlike
  Admin = {p, q}
  Asks <- MCAsks
  Names = {"r", "s", "ab", "a_", "a", "b", "c"}
  Refs = {"x", "y"}
  Batches <- MCBatches
  Keep = Keep
  Seeds <- MCStaff
  MaxRequests = 2
INVARIANT OneRuntimeKey
CHECK_DEADLOCK FALSE
