SPECIFICATION FairSpec
CONSTANTS
  j1 = j1
  j2 = j2
  f1 = f1
  f2 = f2
  f3 = f3
  Jobs = {j1, j2}
  Feeds = {f1, f2}
  MaxVersion = 1
  CatalogProtections = {1}
  FaultKinds = {}
  MaxFaults = 0
  BatchSize = 2
  WorkerReadCount = 2
  ConsumerReadCount = 2
  Replies = {"tagged"}
CHECK_DEADLOCK FALSE
PROPERTIES
  JobsFinish
