SPECIFICATION FairSpec
CONSTANTS
  Flows = {"f1", "f2"}
  Requests = {"r1", "r2"}
  Slots = {"s1", "s2"}
  MaxTroubles = 1
INVARIANTS TypeOK SignedInHasSession
PROPERTIES ApprovalSignsIn PollingStops
CHECK_DEADLOCK FALSE
