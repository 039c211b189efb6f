SPECIFICATION Spec
CONSTANTS
  a = a
  b = b
  c = c
  d = d
  u1 = u1
  u2 = u2
  u3 = u3
  u4 = u4
  tag = tag
  Files = {1, 2, 3, 4}
  CatalogFiles = {1, 2, 4}
  QuotedFiles = {4}
  Urls = {u1, u2, u3, u4}
  Names = {a, b, c, d}
  Tags = {tag}
  NameOf <- MCNameOf
  Revisions <- MCRevisions
  MaxPushes = 3
  MaxFailures = 1
  ToggledUrls = {u2}
  ToggledNames = {a}
INVARIANTS TypeOK ClonedCatalogIsStored SecondFullSyncRestores
PROPERTIES SyncOrToggleSetsFlag
CHECK_DEADLOCK FALSE
