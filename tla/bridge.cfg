SPECIFICATION FairSpec
CONSTANTS
  u1 = u1
  u2 = u2
  u3 = u3
  b1 = b1
  b2 = b2
  c1 = c1
  c2 = c2
  NoUser = NoUser
  Users <- TwoUsers
  Addressable <- OneUser
  Bridges <- OneBridge
  Deleters <- OneDeleter
  Faults <- AllFaults
  MaxChanges = 4
  MaxFaults = 1
INVARIANTS
  TypeOK
  OnlyEntitledTold
  SteadyUsersTold
PROPERTIES
  DeletionReachesAudience
CHECK_DEADLOCK FALSE
