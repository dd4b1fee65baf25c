SPECIFICATION Spec
CONSTANTS
  Fibers = {f1, f2, f3}
  Cycles = {c1, c2, c3}
  Clients = {s1}
  NoFiber = NoFiber
  NoCycle = NoCycle
  Delay = 2
  MaxWait = 3
  MaxBurst = 2
  MayDie = TRUE
SYMMETRY Symmetry
INVARIANTS OneRun NoGhost
