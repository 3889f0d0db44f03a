SPECIFICATION Spec
CONSTANTS
  Threads = {t0, t1}
  Mutexes = {m1, m2}
  Conds = {c1}
  Main = t0
  None = None
  Program = {"create", "lock", "unlock", "wait", "broadcast"}
  MaxCalls = 5
  Losses = FALSE
SYMMETRY Symmetry
CHECK_DEADLOCK FALSE
INVARIANTS TypeOK SectionsDisjoint SectionsNumbered DeadlockVisible
