\* Nine lines through a ring of four: the ring is used twice over.  Rows of
\* four timing words, two of which fit in the queue, as on the board.
CONSTANTS
  HEIGHT = 9
  PREFETCH_LINES = 4
  V_BACK = 2
  V_BLANK = 4
  FIFO_WORDS = 8
SPECIFICATION Spec
INVARIANTS
  TypeOK
  PrefetchKeepsOffScan
  FrameHandledInBlanking
PROPERTIES
  RowsFollowEachOther
