SPECIFICATION Spec
CONSTANTS
  Jobs = {"chat", "talk"}
  Debates = {"talk"}
  Turns = 2
  MaxTries <- MCMaxTries
  MaxPolls = 2
  MaxShown = 5
INVARIANTS ThinkingKeepsListening
CHECK_DEADLOCK FALSE
