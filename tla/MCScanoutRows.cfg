\* The row that each line of the panel shows.
CONSTANTS
  HEIGHT = 9
  PREFETCH_LINES = 4
  V_BACK = 2
  V_BLANK = 4
  FIFO_WORDS = 8
SPECIFICATION Spec
INVARIANTS
  EachLineShowsItsRow
