SPECIFICATION FairDriveSpec
CONSTANTS
  CommandTimeout = 2
  ImuTimeout = 1
  SettleTime = 1
  MaxRestarts = 1
INVARIANT NoOldFrame
PROPERTY SilenceStops
PROPERTY HoldResumes
