SPECIFICATION Spec
CONSTANTS
  Users = {"owner", "helper"}
  Anonymous = "nobody"
  System = "system"
  Collections = {"roads", "rivers"}
  Processes = {}
  Jobs = {}
  SimilarTo <- MCSimilar
  Clients = {"c1", "c2"}
  ActsAs <- MCActs
  Asks <- MCAsks
  Configs <- MCConfigs
  Drafts <- MCDrafts
  Tables <- MCTables
  ContentOf <- MCContents
  CacheSize = 1
  MaxRows = 3
  MaxRequests = 3
  MaxRestarts = 1
INVARIANTS
  StorageCrsKnown
  CreationKeepsWhatWasGiven
  ServedFromItsConfiguration
  ListingsServeWhatMayBeViewed
CHECK_DEADLOCK FALSE
