CONSTANTS
  Launches = {"manual", "game3", "game2", "pk"}
  Pads <- MCPads
  MaxLevel = 3
  OpenDelay = 1
  RestoreDelay = 1
  MaxInFlight = 1
  PanelCount = 3
  LevelOf <- MCLevelOf
  RowLevels = {2}
  SpinupLevel = 1
SPECIFICATION Spec
VIEW AllButDrive
INVARIANT TypeOK
INVARIANT StoppedIsStill
INVARIANT OneDriver
INVARIANT AimsAtTarget
INVARIANT LevelOfSelected
PROPERTY BeltsKeepOwner
