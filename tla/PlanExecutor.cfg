SPECIFICATION PlanSpec
CONSTANTS
  HistoryCap = 2
  QueueCap = 1
  MaxFaults = 1
  Plans <- MCPlans
  Batches <- MCBatches
  Waits <- MCWaits
  Facts = {"home", "app"}
  MaxFeed = 2
  MaxCaptures = 2
  MaxCalls = 2
INVARIANTS
  WaitEndsAtDeadline
  CleanCallDelivered
  PlanDelivered
  CopiesBounded
  SubscribersAccounted
CHECK_DEADLOCK FALSE
