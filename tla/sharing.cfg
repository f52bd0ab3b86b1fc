SPECIFICATION Spec
CONSTANTS
  u1 = u1
  u2 = u2
  c1 = c1
  p1 = p1
  j1 = j1
  q1 = q1
  q2 = q2
  q3 = q3
  Anonymous = Anonymous
  System = System
  NoRow = NoRow
  Users <- TwoUsers
  Collections <- OneCollection
  Processes <- OneProcess
  Jobs <- OneJob
  Requests <- ThreeRequests
  Assignable <- SomeScopes
SYMMETRY Symmetry
INVARIANTS
  TypeOK
  ScopesWereGranted
  ListingsShowWhatMayBeViewed
  PolicyMirrorsLocal
PROPERTIES
  ActsOnWhatWasChecked
CHECK_DEADLOCK FALSE
