CONSTANTS
  MaxCommits = 4
  MaxParents = 3
  MaxConflict = 2
  Times = {1, 2}
  Id <- MCIds
  BucketSize = 2
  Given <- MCOne
  Tagged = {1, 3}
  MaxFaults = 0
SPECIFICATION BisectSpec
INVARIANT MergeRecorded
CHECK_DEADLOCK FALSE
