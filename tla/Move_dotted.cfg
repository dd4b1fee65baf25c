SPECIFICATION Spec
CONSTANTS
  Dotted = {"v1.2"}
  DestinationNames = {"v1.2"}
  Bundles <- MCBundles
  Moves <- MCMoves
  MaxRuns = 2
  BundleName = "okf"
INVARIANTS LinksSurvive
CHECK_DEADLOCK FALSE
