SPECIFICATION FairSpec
CONSTANTS
  Buffers = {b1, b2, b3}
  Ids = {i1, i2}
  Memory = {m1, m2}
  None = None
  MaxTransfers = 5
INVARIANTS TransferSafe IdsAccounted NothingLeftWired
PROPERTIES RegionsKeptApart CallsEnd
CHECK_DEADLOCK FALSE
