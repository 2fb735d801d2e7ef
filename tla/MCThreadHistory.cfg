SPECIFICATION Spec
CONSTANTS
  Jobs = {j1, j2}
  Files = {"file"}
  Screen = "gemchat"
  MaxCuts = 1
INVARIANTS TypeOK AnswersAreShown DeletedLeavesNothing
PROPERTIES HistoryOnlyGrows
CHECK_DEADLOCK FALSE
SYMMETRY Symmetry
