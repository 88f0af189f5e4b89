\* Two threads, three keys and three values: a list has a first, a middle and
\* a last entry, and destructors set values while others wait.  The system
\* really stops: threads end, and a deleted key masks the interrupts.
CONSTANTS
  Task = {t1, t2}
  Value = {v1, v2, v3}
  NoTask = NoTask
  Null = Null
  MaxKeys = 3
SPECIFICATION FairSpec
CHECK_DEADLOCK FALSE
INVARIANTS
  TypeOK
  ValuesMeetTheirEnd
  LateValuesComeLast
  KeyInUseIsLive
PROPERTIES
  ExitCompletes
