SPECIFICATION Spec
INVARIANTS CurrentWasRead FailClosed BatchSettles RevokeUnbinds RefreshSettles
CONSTANTS
  Ids = {1, 2}
  c1 = c1
  c2 = c2
  c3 = c3
  ann = ann
  bob = bob
  cyd = cyd
  Bundles <- MCBundles
  Contents = {c1, c2, c3}
  Humans = {ann, bob, cyd}
  AllowList = {ann, bob}
  Unhashable = {c3}
  Required = {"decision"}
  Period = 1
  Given = {1, 3}
  MaxTime = 2
  MaxActs = 1
  MaxRuns = 2
CHECK_DEADLOCK FALSE
