SPECIFICATION Spec
CONSTANTS
  Agents <- OneAgent
  Gems = {"muse"}
  CastLimits <- MCCastLimits
  StartTurns = 1
  Extensions = {1}
  TurnCap = 2
  MaxPosts = 3
  MaxTries = 1
  MaxRunning = 1
  MaxRuns = 3
INVARIANTS ExtensionIsPosted
CHECK_DEADLOCK FALSE
