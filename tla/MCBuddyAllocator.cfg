SPECIFICATION Spec
CONSTANTS
  PoolBlocks = 5
  NumSizes = 3
  Reserve = 4
  Requests = {1, 2, 3, 5}
  UserData = {"garbage", "lookalike", "untouched"}
INVARIANTS
  CheckSucceeds
  ChunksPartitionPool
  BuddiesMerged
  RefusedOnlyWhenFull
  DataKept
