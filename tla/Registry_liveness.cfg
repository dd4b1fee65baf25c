SPECIFICATION Spec
CONSTANTS
  f1 = f1
  f2 = f2
  r1 = r1
  r2 = r2
  Folders = {f1, f2}
  Roots = {r1}
  Handles = {h1, h2, h3}
  Procs = {p1, p2}
  Requesters = {p2}
  NoRoot = NoRoot
  NoHandle = NoHandle
  NoProc = NoProc
  Broken = Broken
  Configs <- BrokenFixed
  MaxEdits = 1
  Interruptible = {p2}
PROPERTIES CallsReturn ReportFollowed
