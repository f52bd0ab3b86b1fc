SPECIFICATION FairWalkSpec
CONSTANTS
  Ids = {"a", "b", "c", "d"}
  Places = {"near", "far"}
  Covers <- MCCovers
  Throttle = 2
  Numerals = {"a", "b"}
  Scans <- MCScans
  SourceSettings <- MCSourceSettings
  Queries <- MCQueries
  PageSizeMax = 3
  MaxFeatures = 4
  MaxEdits = 1
INVARIANTS
  NothingSkipped
  PagesDoNotOverlap
  PageHonoursQuery
  
PROPERTY WalkEnds
CHECK_DEADLOCK FALSE
