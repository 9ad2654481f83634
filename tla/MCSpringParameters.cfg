SPECIFICATION Spec
CONSTANTS
  LowestTarget <- MCLowest
  Positions <- MCPositions
  FeedbackStates = {"READY", "ERROR"}
  ReferenceReports = {FALSE}
  StandbyOffsets = {0, 1}
  InitialStandby = 1
  FireIncrement <- MCIncrement
  ReadyTravel = 1
  Tolerance = 0
  HomingStep = 1
  SlowRetract = 0
  SlowStroke = 1
  ExtensionSteps = {1}
  ReturnStep = 1
  MoveSpring = {TRUE, FALSE}
  RequiredStable = 1
  HomingTimeout = 2
  MotionTimeout = 2
  SlowDelay = 0
  SlowTimeout = 2
  ArmOnlyDuration = 1
  TimeLimit = 2
  MaxZeroRequests = 1
  FireRequests = {TRUE, FALSE}
  SlowFireRequests = {}
  ClearanceRequests = {TRUE, FALSE}
  EmergencyStops = {TRUE, FALSE}
  NoCommand = NoCommand
INVARIANT FiringExcludesClearance
PROPERTY AnnouncesOnlyRetracted
