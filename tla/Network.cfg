CONSTANTS
  Fitted = {"wifi", "halow", "cat1"}
  EventQueueSize = 1
  NetFaults = {"fail", "drop", "slow_events", "memory"}
  MaxRetries = 3
  DppTasks = {1, 2}
SPECIFICATION FairSpec
CHECK_DEADLOCK FALSE
INVARIANTS TypeOK BitsTellTheTruth OkMeansConnected PushFollowsNetwork StartsAfterStop
PROPERTIES SleepsWithoutDpp DppEnds OpenReturns
