SPECIFICATION FairSpec
CONSTANTS
  w1 = w1
  w2 = w2
  w3 = w3
  d1 = d1
  d2 = d2
  d3 = d3
  Workers <- TwoWorkers
  Definitions <- TwoDefinitions
  NoDefinition = NoDefinition
  Faults <- CrashesOnly
  MaxWrites = 1
  MaxFaults = 1
PROPERTY NotLeftInProgress
CHECK_DEADLOCK FALSE
