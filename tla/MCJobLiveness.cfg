SPECIFICATION FairSpec
CONSTANTS
  Jobs = {"talk", "rpc"}
  Threads = {"t1"}
  ThreadOf <- MCThreadOf
  KindOf <- MCKindOf
  Watched = {"talk"}
  Workers = {"w1"}
  MaxJobs = 1
  MaxTries = 2
  MaxChunks <- MCMaxChunks
PROPERTIES EveryJobSettles StreamEndsOnceAnswered
CHECK_DEADLOCK FALSE
