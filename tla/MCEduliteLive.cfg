SPECIFICATION FairSpec
CONSTANTS
  Kinds = {"SERVICE", "YAML", "VELOCITY"}
  Parameters = 2
  MaxRetries = 1
  ResponseTimeout = 1
  ErrorRetryPeriod = 1
  FeedbackTimeout = 2
  TargetTimeout = 1
  NonRunLimit = 2
  TimeLimit = 3
  Turn = 3
  Positions <- MCPositions
  Offset = 1
  Lowest <- MCLowest
  Highest = 3
  Targets = {0, 2}
  Losses = FALSE
  Outages = TRUE
  LongOutages = TRUE
  ShaftMoves = FALSE
  Prompt = TRUE
  MaxInbox = 1
PROPERTY BecomesReady
PROPERTY StaleVelocityEnds
