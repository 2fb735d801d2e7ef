SPECIFICATION Spec
CONSTANTS
  Calls = {c1, c2}
  MaxPages = 2
  MaxCuts = 1
INVARIANTS TypeOK AnswerIsForItsCall
CHECK_DEADLOCK FALSE
