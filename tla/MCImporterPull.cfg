SPECIFICATION FairSpec
CONSTANTS
  Department = {1, 2, 3, 4}
  Person = {1, 2, 3}
  Roots = {1, 2, 3}
  Letters <- MCLetters
  Remotes <- MCRemotes
  PageSize = 1
  MaxChanges = 2
INVARIANTS MembersFound PathsAreReal
PROPERTY PullEnds
CHECK_DEADLOCK FALSE
