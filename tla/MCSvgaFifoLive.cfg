SPECIFICATION FairSpec
CONSTANTS
  Client = {c1}
  NoClient = none
  Min = 1
  Max = 5
  BounceSize = 3
  Lens = {1, 3}
  FenceMod = 6
PROPERTIES
  DoorbellServed
  WaitsEnd
