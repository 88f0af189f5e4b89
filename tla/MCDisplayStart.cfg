\* Two tasks that start the display at the same time.
CONSTANTS
  Caller = {main, worker}
  Buffer = {b1, b2}
  NoBuffer = NoBuffer
SPECIFICATION Spec
CHECK_DEADLOCK FALSE
INVARIANTS
  ScannedBufferIsAllocated
