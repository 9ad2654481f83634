SPECIFICATION FairSpec
CONSTANTS
  CommandedModes = {"DRIBBLE", "OPEN"}
  SpringOperations = {"IDLE", "SLOW_FIRE", "BELT_CLEARANCE"}
  ArmPositions = {"DRIBBLE"}
  ArmReports = {TRUE, FALSE}
  EmergencyStops = {TRUE, FALSE}
  BeltReports = {TRUE, FALSE}
  Compensations <- MCCompensations
  DribbleRpm = 1
  OpeningRpm = 2
  FeedingRpm = 1
  ReturningRpm = 2
  SlowRpm = 0
  RpmLimit = 2
  PrepareDelay = 1
  BeltDelay = 1
  ClearanceTimeout = 2
  TravelTime = 2
  TimeLimit = 2
INVARIANT TypeOK
INVARIANT HoldsDuringEmergencyStop
INVARIANT RestsWhereAsked
PROPERTY ShotEnds
