SPECIFICATION Spec
CONSTANTS
  Fibers = {f1, f2, f3}
  Cycles = {c1, c2}
  Clients = {s1}
  NoFiber = NoFiber
  NoCycle = NoCycle
  Delay = 1
  MaxWait = 2
  MaxBurst = 2
  MayDie = FALSE
INVARIANT SettleCovers
