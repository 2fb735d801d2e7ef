SPECIFICATION Spec
CONSTANTS
  Jobs = {j1, j2}
  Files = {"file"}
  Screen = "canvas"
  MaxCuts = 1
INVARIANT PageIsShown
CHECK_DEADLOCK FALSE
