SPECIFICATION RefreshSpec
CONSTANTS
  MaxSwitches = 4
  MaxModes = 3
INVARIANT TimerAlive
PROPERTIES DrawingShown TimerStops
