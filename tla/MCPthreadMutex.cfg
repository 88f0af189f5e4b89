\* Three tasks race for the first lock; a second block shows a lost race or a
\* reused address.
CONSTANTS
  Task = {t1, t2, t3}
  NoTask = NoTask
  Mux = {m1, m2}
  Static = Static
  MaxDepth = 2
  DestroysOwn = FALSE
SPECIFICATION FairSpec
INVARIANTS
  TypeOK
  OneBlock
  SemaphoreMatchesHolds
PROPERTIES
  ImplementsMutex
  LockReturns
