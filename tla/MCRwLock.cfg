\* Three tasks, two lock calls each, of which both may be read locks.
CONSTANTS
  Task = {t1, t2, t3}
  NoTask = NoTask
  MaxHold = 2
  MaxCalls = 2
SPECIFICATION FairSpec
INVARIANTS
  TypeOK
  CountersMatchHolders
  NoLostWakeup
  DestroyedIsUnused
PROPERTIES
  ImplementsRwLock
  CallsReturn
