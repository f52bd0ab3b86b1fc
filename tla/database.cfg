SPECIFICATION Spec
CONSTANTS
  Migrators = {m1, m2}
  Sessions = {s1, s2}
  Targets <- MCTargets
  Scenarios = {"migrations", "edits"}
SYMMETRY MCSymmetry
INVARIANTS
  SchemaIsItsRevisions
  HealthyIsMapped
PROPERTIES
  SettledStays
  UnnamedUrlSurvives
