SPECIFICATION Spec
CONSTANTS
  Tools = {t1, t2}
  Sizes = {s1, s2}
  FirstSize = s1
  MaxRequests = 3
  MaxChanges = 2
INVARIANT NoLostWakeup
PROPERTIES RequestEnds ScreenSettles
