SPECIFICATION Spec
CONSTANTS
  Windows = {w1, w2}
  WindowServer = w1
INVARIANT GrabGetsTheLock
