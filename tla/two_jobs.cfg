SPECIFICATION Spec
CONSTANTS
  j1 = j1
  j2 = j2
  f1 = f1
  f2 = f2
  f3 = f3
  Jobs = {j1, j2}
  Feeds = {f1}
  MaxVersion = 2
  CatalogProtections = {0, 1}
  FaultKinds = {"redis_command", "feed_upserted", "foreign_entry", "feed_deleted", "redis_lost"}
  MaxFaults = 1
  BatchSize = 1
  WorkerReadCount = 2
  ConsumerReadCount = 2
  Replies = {"tagged", "untagged", "malformed"}
CHECK_DEADLOCK FALSE
SYMMETRY Symmetry
INVARIANTS
  ErrorsCountedOnce
  StoredVersionIsIngested
  AcknowledgedJobsComplete
