SPECIFICATION FairSpec
CONSTANTS
  u1 = u1
  u2 = u2
  Urls = {u1, u2}
  Dates = {2, 100}
  MaxSources = 2
  MaxDowngrades = 3
  MaxFailures = 5
INVARIANTS TypeOK DowngradeIsUndone OnlyTwinsBlockMigrations ConsumesOnLatest
PROPERTIES MigrationsKeepRows StartupEnds
CHECK_DEADLOCK FALSE
