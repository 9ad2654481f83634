SPECIFICATION InterlockSpec
CONSTANTS
  CommandedModes = {"DRIBBLE", "OPEN", "FEED"}
  SpringOperations = {"IDLE", "BELT_CLEARANCE"}
  ArmPositions = {"FEED"}
  ArmReports = {TRUE, FALSE}
  EmergencyStops = {TRUE, FALSE}
  BeltReports = {FALSE}
  Compensations <- MCNoCompensation
  DribbleRpm = 0
  OpeningRpm = 0
  FeedingRpm = 0
  ReturningRpm = 0
  SlowRpm = 0
  RpmLimit = 2
  PrepareDelay = 1
  BeltDelay = 1
  ClearanceTimeout = 2
  TravelTime = 2
  TimeLimit = 2
  RestAnnouncements = {"IDLE"}
  ShotAnnouncements = {"NORMAL_FIRE"}
  Prompt = TRUE
INVARIANT ClearanceFollowsCycle
INVARIANT NeverParksInFeed
INVARIANT FeedsPastLentSpring
