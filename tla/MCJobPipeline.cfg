SPECIFICATION Spec
CONSTANTS
  Jobs = {"chat", "bad"}
  Threads = {"t1"}
  ThreadOf <- MCThreadOf
  KindOf <- MCKindOf
  Watched = {"chat"}
  Workers = {"w1"}
  MaxJobs = 1
  MaxTries = 2
  MaxChunks <- MCMaxChunks
INVARIANTS TypeOK StreamIsPrefix GemLookupNeverRaces SlotsAccounted
PROPERTIES DoneDeliversTokens ResultSealsAttempt TokensAreSealedLog
CHECK_DEADLOCK FALSE
