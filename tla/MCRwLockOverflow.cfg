\* One task that takes one read lock more than an int8_t counts.
CONSTANTS
  Task = {t1}
  NoTask = NoTask
  MaxHold = 128
  MaxCalls = 128
SPECIFICATION Spec
INVARIANTS
  ReaderCountIsExact
