SPECIFICATION FairSpec
CONSTANTS
  Levels = 1
  LevelRpms = {1, 2}
  MaxSteps = 1
  RpmPerStep = 1
  Modes = {0, 1, 2}
  StepRequests <- MCStepRequests
  DirectRpms = {0, 2}
  MaxQueue = 2
  MaxRpm = 3
  Slew = 1
  Threshold = 2
  FreeSpeed = 5
INVARIANT TypeOK
INVARIANT StopIsHeeded
INVARIANT NoOverspeed
PROPERTY StopEndsRotation
PROPERTY Settles
