SPECIFICATION Spec
CONSTANTS
  w1 = w1
  w2 = w2
  w3 = w3
  d1 = d1
  d2 = d2
  d3 = d3
  Workers <- TwoWorkers
  Definitions <- TwoDefinitions
  NoDefinition = NoDefinition
  Faults <- AllFaults
  MaxWrites = 4
  MaxFaults = 2
SYMMETRY Symmetry
INVARIANTS
  TypeOK
  TruthfulStatus
  ExclusiveDeployment
CHECK_DEADLOCK FALSE
