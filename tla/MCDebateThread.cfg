SPECIFICATION Spec
CONSTANTS
  Agents <- OneAgent
  Gems = {"muse"}
  CastLimits <- MCCastLimits
  StartTurns = 1
  Extensions = {1}
  TurnCap = 2
  MaxPosts = 3
  MaxTries = 2
  MaxRunning = 2
  MaxRuns = 3
INVARIANTS TypeOK RotationKept FinishedAtLength HistoryKeepsDebates ResultInStream
CHECK_DEADLOCK FALSE
