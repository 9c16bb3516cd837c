SPECIFICATION Spec
CONSTANTS
  NumHandles = 3
  UNIT = 20
  Unlinked = {"STD"}
  Linked = {"AGPREF"}
  Addrs = {a1}
  Contexts = {c1, c2}
  Fbos = {"draw"}
  Units = {1}
  MaxTokens = 1
  MaxBound = 2
  None = None
INVARIANTS InUseIsLive CountsExact OneDeletes
PROPERTIES LinkCurrent
SYMMETRY Symmetry
CHECK_DEADLOCK FALSE
