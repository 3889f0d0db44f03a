SPECIFICATION Spec
CONSTANTS
  Threads = {t0, t1, t2}
  Mutexes = {m1}
  Conds = {c1}
  Main = t0
  None = None
  Program = {"create", "join"}
  MaxCalls = 4
  Losses = TRUE
SYMMETRY Symmetry
CHECK_DEADLOCK FALSE
INVARIANT ForkJoinOrdered
