SPECIFICATION FairSpec
CONSTANTS
  Inodes = {i1, i2, i3, i4, i5}
  MaxToken = 4
  Environments <- MCEnvironments
  NoToken = NoToken
INVARIANTS TypeOK SameMeansCurrent
PROPERTIES CatchesUp
CHECK_DEADLOCK FALSE
