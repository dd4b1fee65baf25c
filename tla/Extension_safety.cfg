SPECIFICATION Spec
CONSTANTS
  Workspaces <- MCWorkspaces
  Bundled <- MCBundled
  MinServer = 2
  Roots = {r1}
  MaxRequests = 2
  Cases <- MCCases
INVARIANTS OwnsWhatRuns TreeSettles WarmedUp EditLands
CHECK_DEADLOCK FALSE
