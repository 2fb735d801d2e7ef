SPECIFICATION FairSpec
CONSTANTS
  Jobs = {"chat", "talk"}
  Debates = {"talk"}
  Turns = 2
  MaxTries <- MCMaxTries
  MaxPolls = 1
  MaxShown = 3
INVARIANTS TypeOK TurnsOnceInOrder TranscriptUnmixed ThinkingHasSource
PROPERTIES DoneShowsWholeDebate AnswerArrives
CHECK_DEADLOCK FALSE
