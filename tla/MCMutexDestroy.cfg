\* Two tasks, one of which destroys what it holds.
CONSTANTS
  Task = {t1, t2}
  NoTask = NoTask
  Mux = {m1, m2}
  Static = Static
  MaxDepth = 2
  DestroysOwn = TRUE
SPECIFICATION Spec
INVARIANTS
  HeldIsNotFreed
