SPECIFICATION ReadSpec
CONSTANTS
  j1 = j1
  j2 = j2
  f1 = f1
  f2 = f2
  f3 = f3
  Jobs = {j1}
  Feeds = {f1, f2}
  MaxVersion = 1
  CatalogProtections = {1}
  FaultKinds = {"redis_command", "worker_crash", "consumer_crash", "backend_crash", "db_error", "feed_deleted"}
  MaxFaults = 2
  BatchSize = 1
  WorkerReadCount = 2
  ConsumerReadCount = 2
  Replies = {"unreachable", "tagged"}
CHECK_DEADLOCK FALSE
SYMMETRY Symmetry
INVARIANTS
  TypeOK
  AckedRequestsArePublished
  AckedResultsArePersisted
  AcknowledgedJobsComplete
  StatusMatchesResults
  CompletedJobsAreProcessed
  StatusReadsAgree
  AnswersAreConsistent
PROPERTIES
  StatusNeverRegresses
  TracksJobs
