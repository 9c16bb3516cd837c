SPECIFICATION Spec
CONSTANTS
  PageSize = 3
  DPP = 2
  PpnLimit = 200
  MaxLength = 9
  MaxSegments = 7
  Memory <- MCMemory
  Base = 100
  Gap = 5
INVARIANTS RegionIsMemory TableWithinLimits
CHECK_DEADLOCK FALSE
