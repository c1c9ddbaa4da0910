SPECIFICATION FairSpec
CONSTANTS
  Alike <- MCAlike
  Admin = {p, q}
  Asks <- MCAsks
  Names = {"r", "s", "ab", "a_", "a", "b", "c"}
  Refs = {"x", "y"}
  Batches <- MCBatches
  Keep = Keep
  Seeds <- MCSeeds
  MaxRequests = 3
INVARIANTS TypeOK RetiredKeysStayRetired OneKeyUnlessResetsMeet ReferencesHold
  MovesKeepForest PathsFollowParents
PROPERTIES ImportsAreAsPreviewed ImportTouchesOnlyWhatItSaw WalksEnd
CHECK_DEADLOCK FALSE
