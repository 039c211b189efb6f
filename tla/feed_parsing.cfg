CONSTANTS
  Entries <- MCEntries
  Heads <- DatedHead
  Shapes = {"rss", "atom", "rdf"}
  ShapeName <- MCShapeName
  MaxEntries = 2
  QueryWidth <- MCQueryWidth
  QueryHeight <- MCQueryHeight
  LongUrls = {"long"}
  FirstDate = 5
SPECIFICATION Spec
INVARIANTS
  ImageIsLargest
  ArticlesAreKept
CHECK_DEADLOCK FALSE
