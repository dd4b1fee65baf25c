CONSTANTS
  Concepts = {c1, c2}
  MaxBody = 2
  MaxDay = 2
  MaxCommits = 2
  MaxActs = 4
SPECIFICATION Spec
SYMMETRY Symmetry
INVARIANTS TypeOK SyncInv
PROPERTIES LogVerbatim HookIsKept
