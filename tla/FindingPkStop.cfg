CONSTANTS
  Launches = {"pk"}
  Pads <- MCPads
  MaxLevel = 3
  OpenDelay = 1
  RestoreDelay = 1
  MaxInFlight = 1
  PanelCount = 3
  LevelOf <- MCLevelOf
  RowLevels = {2}
  SpinupLevel = 1
SPECIFICATION Spec
INVARIANT StopEndsAutomatic
