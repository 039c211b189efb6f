SPECIFICATION FairSpec
CONSTANTS
  j1 = j1
  j2 = j2
  f1 = f1
  f2 = f2
  f3 = f3
  Jobs = {j1}
  Feeds = {f1}
  MaxVersion = 1
  CatalogProtections = {1}
  FaultKinds = {"redis_command"}
  MaxFaults = 2
  BatchSize = 1
  WorkerReadCount = 1
  ConsumerReadCount = 1
  Replies = {"tagged"}
CHECK_DEADLOCK FALSE
PROPERTIES
  DeliveredRequestsAreAcked
