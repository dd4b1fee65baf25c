SPECIFICATION Spec
CONSTANTS
  Dotted = {"v1.2"}
  DestinationNames = {"x", "c", "index"}
  Bundles <- MCBundles
  Moves <- MCMoves
  MaxRuns = 2
  BundleName = "okf"
CHECK_DEADLOCK FALSE
INVARIANTS LinksSurvive NothingLost
