SPECIFICATION FairSpec
CONSTANTS
  t1 = t1
  t2 = t2
  t3 = t3
  Threads = {t1, t2, t3}
  ProcessOf <- MCProcessOf
  Names = {"rss_sync", "sources_repartition_partitions"}
  PgNames = {"rss_sync"}
  MaxFailures = 3
INVARIANTS ExclusiveInProcess ExclusiveAcrossProcesses LocksHaveOwners
PROPERTIES LocksAreFreed
