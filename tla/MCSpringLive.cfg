SPECIFICATION FairSpec
CONSTANTS
  LowestTarget <- MCLowest
  Positions = {0, 1}
  FeedbackStates = {"READY"}
  ReferenceReports = {FALSE}
  StandbyOffsets = {1}
  InitialStandby = 1
  FireIncrement <- MCIncrement
  ReadyTravel = 1
  Tolerance = 1
  HomingStep = 1
  SlowRetract = 1
  SlowStroke = 2
  ExtensionSteps = {1, 2}
  ReturnStep = 1
  MoveSpring = {TRUE, FALSE}
  RequiredStable = 1
  HomingTimeout = 2
  MotionTimeout = 2
  SlowDelay = 1
  SlowTimeout = 2
  ArmOnlyDuration = 1
  TimeLimit = 2
  MaxZeroRequests = 1
  FireRequests = {}
  SlowFireRequests = {TRUE, FALSE}
  ClearanceRequests = {}
  EmergencyStops = {TRUE, FALSE}
  NoCommand = NoCommand
INVARIANT StandbyPhase
PROPERTY MotionEnds
