CONSTANTS
  Concepts = {c1, c2}
  MaxBody = 2
  MaxDay = 2
  MaxCommits = 2
  MaxActs = 5
SPECIFICATION Spec
SYMMETRY Symmetry
INVARIANTS StampTrue NamedOnce
PROPERTIES PlanIsFresh SyncSettles
