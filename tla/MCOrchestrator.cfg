SPECIFICATION FairSpec
CONSTANTS
  Jobs = {j1, j2}
  Names = {out}
  Stamps = {1}
  MaxDeltas = 2
  Folder = {}
  React = {reader}
  CodeAct = {coder}
  Gems = {gem}
  RecursionLimit = 3
  MaxIterations = 2
INVARIANTS TypeOK AgentClientsStopped StreamTellsOnce NewFilesReported
PROPERTIES TurnEnds
CHECK_DEADLOCK FALSE
