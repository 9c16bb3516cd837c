SPECIFICATION Spec
CONSTANTS
  Chunks = {v1, v2}
  Kernel = {k1}
  Clients = {c1, c2}
  Contexts = {g1, g2}
  MaxSize = 2
  MaxTransfers = 2
  Trick = Trick
  None = None
SYMMETRY Symmetry
INVARIANTS TransferSafe MapsMatchBacking BackingHoldsSource ClientWrapCurrent TargetKept
PROPERTIES WriterWaits
CHECK_DEADLOCK FALSE
