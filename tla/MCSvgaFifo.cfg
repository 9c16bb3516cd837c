SPECIFICATION Spec
CONSTANTS
  Client = {c1, c2}
  NoClient = none
  Min = 2
  Max = 7
  BounceSize = 4
  Lens = {3, 5}
  FenceMod = 6
INVARIANTS
  DeviceSeesWholeCommands
  ReservedCoversContents
  SyncWaitsForCommands
PROPERTIES
  ImplementsStream
