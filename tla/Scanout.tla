------------------------------ MODULE Scanout ------------------------------
(***************************************************************************)
(* The scan-out engine of pico-std/c/src/display.c on core 1, built for a  *)
(* framebuffer in PSRAM.                                                   *)
(*                                                                         *)
(* Four parties run side by side.  A PIO state machine executes the timing *)
(* words timing_isr queues for it, and some of them raise an interrupt at  *)
(* the end of a panel row or start a row's pixels.  A chain of two DMA     *)
(* channels feeds the pixels: when the pixel channel has read a line, the  *)
(* line channel restarts it at next_line_addr.  A third DMA channel        *)
(* prefetches lines from PSRAM.  line_isr runs for the line and the frame  *)
(* interrupt, in front of timing_isr, which is why the panel stalls, two   *)
(* rows later, when a handler takes long.                                  *)
(*                                                                         *)
(* A line's pixels are abstracted to the row that was fetched into it, or  *)
(* begun to be, last; slot i is prefetched_lines[i].                       *)
(***************************************************************************)
EXTENDS Integers, Sequences

CONSTANTS
  HEIGHT,          \* PANEL_HEIGHT
  PREFETCH_LINES,
  V_BACK,          \* TIMING_V_BACK, rows before the first that is displayed
  V_BLANK,         \* rows after the last one that is displayed
  FIFO_WORDS       \* timing words the state machine's queue holds

\* A picture fills the ring, and the row in front of the one that is scanned,
\* that one and the next have places of their own in it.
ASSUME PanelAssumption ==
  /\ {HEIGHT, PREFETCH_LINES, V_BACK, V_BLANK, FIFO_WORDS} \subseteq Nat \ {0}
  /\ 3 <= PREFETCH_LINES /\ PREFETCH_LINES <= HEIGHT

\* The queue, joined as PIO_FIFO_JOIN_TX, holds two rows at most, and fewer
\* words than there are without an interrupt from one picture to the next.
ASSUME QueueAssumption ==
  FIFO_WORDS <= 8 /\ FIFO_WORDS <= 4 * (V_BLANK + V_BACK - 1)

V_DISPLAY == HEIGHT + V_BACK
V_FRONT == V_DISPLAY + V_BLANK

Row == 0 .. HEIGHT - 1
Slot == 0 .. PREFETCH_LINES - 1
None == -1

VARIABLES
  timing_row, timing_phase,
  timing_fifo,     \* the timing words queued
  beam,            \* in a displayed row: "porch", "pixels" or "tail"
  irq,             \* raised, not yet served: subset of {"line", "frame"}
  handler,         \* what line_isr is at: "none", "line" or "frame"
  copy,            \* the row prefetch_line_blocking copies
  display_row,
  next_line_addr,  \* slot the pixel channel is restarted with
  pixel,           \* slot the pixel channel reads, None when it is stopped
  prefetch,        \* row the prefetch channel copies, None when it is idle
  lines            \* prefetched_lines

timing == <<timing_row, timing_phase, timing_fifo>>
vars == <<timing, beam, irq, handler, copy, display_row, next_line_addr,
          pixel, prefetch, lines>>

\* display_core1 has just enabled the interrupts.
Init ==
  /\ timing_row = 0 /\ timing_phase = 0 /\ timing_fifo = <<>>
  /\ beam = "porch" /\ irq = {}
  /\ handler = "none" /\ copy = None
  /\ display_row = 0
  /\ next_line_addr = None /\ pixel = None /\ prefetch = None
  /\ lines = [s \in Slot |-> None]

\* The row that the state machine's next word belongs to.
BeamRow ==
  ((4 * (V_FRONT + timing_row) + timing_phase - Len(timing_fifo)) % (4 * V_FRONT)) \div 4

\* The line of the panel it is at, counted from 0 for the topmost.
Position == BeamRow - V_BACK

\* An interrupt is taken at once, unless a handler runs.
Served == handler # "none" \/ irq = {}

\* Assumed: a blocking copy takes less than two lines, so a line interrupt that
\* comes during one is served before its line is over.
CopyInTime == ~ (handler = "line" /\ "line" \in irq)

-----------------------------------------------------------------------------
\* timing_isr puts one word; other interrupts come between two of them.

\* The instruction a word ends with.
Instruction(row, phase) ==
  CASE phase = 2 /\ V_BACK <= row /\ row < V_DISPLAY -> "pixels"
    [] phase = 3 /\ row = V_DISPLAY -> "frame"
    [] phase = 3 /\ V_BACK - 1 <= row /\ row < V_DISPLAY -> "line"
    [] OTHER -> "nop"

\* Variant: timing_isr has the higher priority.
PutTimingWordFirst ==
  /\ Len(timing_fifo) < FIFO_WORDS
  /\ timing_fifo' = Append(timing_fifo, Instruction(timing_row, timing_phase))
  /\ timing_phase' = (timing_phase + 1) % 4
  /\ timing_row' = IF timing_phase = 3 THEN (timing_row + 1) % V_FRONT ELSE timing_row
  /\ UNCHANGED <<beam, irq, handler, copy, display_row, next_line_addr, pixel, prefetch, lines>>

\* It does not run while line_isr does, or is about to.
PutTimingWord ==
  /\ handler = "none" /\ irq = {}
  /\ Len(timing_fifo) < FIFO_WORDS
  /\ timing_fifo' = Append(timing_fifo, Instruction(timing_row, timing_phase))
  /\ timing_phase' = (timing_phase + 1) % 4
  /\ timing_row' = IF timing_phase = 3 THEN (timing_row + 1) % V_FRONT ELSE timing_row
  /\ UNCHANGED <<beam, irq, handler, copy, display_row, next_line_addr, pixel, prefetch, lines>>

-----------------------------------------------------------------------------
\* The hardware.

\* The timing state machine executes a word.  A row's last word comes after
\* its pixels, when there are any.
ExecuteTimingWord ==
  /\ timing_fifo # <<>> /\ Served
  /\ beam = "pixels" => pixel = None
  /\ timing_fifo' = Tail(timing_fifo)
  /\ LET word == Head(timing_fifo) IN
       /\ irq' = irq \cup ({word} \cap {"line", "frame"})
       /\ beam' = CASE word = "pixels" -> "pixels"
                    [] word \in {"line", "frame"} -> "porch"
                    [] OTHER -> beam
  /\ UNCHANGED <<timing_row, timing_phase, handler, copy, display_row,
                 next_line_addr, pixel, prefetch, lines>>

\* The pixel channel has read its line, all but the queued last pixels are
\* out, and the line channel restarts it; a null address stops it.
ChainLine ==
  /\ beam = "pixels" /\ pixel # None /\ Served /\ CopyInTime
  /\ pixel' = next_line_addr
  /\ beam' = "tail"
  /\ UNCHANGED <<timing, irq, handler, copy, display_row, next_line_addr, prefetch, lines>>

\* Variant: the index is not reduced.
SlotUnmasked(row) == row

SlotOf(row) == row % PREFETCH_LINES

\* The prefetch channel has copied its line.
PrefetchDone ==
  /\ prefetch # None
  /\ prefetch' = None
  /\ UNCHANGED <<timing, beam, irq, handler, copy, display_row, next_line_addr, pixel, lines>>

-----------------------------------------------------------------------------
\* line_isr.  The blocking copy is what takes time in it.

StartCopy(row) == [lines EXCEPT ![SlotOf(row)] = row]

\* Variant: a line whose predecessor is still being copied is left out.
SkipWhenBusy(row) ==
  /\ copy' = None
  /\ \/ row >= HEIGHT /\ prefetch' = None /\ UNCHANGED lines
     \/ row < HEIGHT /\ prefetch # None /\ UNCHANGED <<prefetch, lines>>
     \/ row < HEIGHT /\ prefetch = None /\ prefetch' = row /\ lines' = StartCopy(row)

\* arm_prefetch_for_row: the copy that is still running is cut short.
ArmPrefetch(row) ==
  \/ /\ row >= HEIGHT
     /\ prefetch' = None /\ copy' = None
     /\ UNCHANGED lines
  \/ /\ row < HEIGHT /\ prefetch # None
     /\ prefetch' = None /\ copy' = row
     /\ lines' = StartCopy(row)
  \/ /\ row < HEIGHT /\ prefetch = None
     /\ prefetch' = row /\ copy' = None
     /\ lines' = StartCopy(row)

\* Variant: the line that display_row counts.
ThisLine(row) == SlotOf(row)

NextLine(row) == SlotOf(row + 1)

StartLineTransfer ==
  /\ handler = "none" /\ irq = {"line"}
  /\ irq' = {}
  /\ display_row' = display_row + 1
  /\ IF display_row' = HEIGHT
     THEN /\ next_line_addr' = None
          /\ prefetch' = None /\ copy' = None
          /\ UNCHANGED lines
     ELSE /\ next_line_addr' = NextLine(display_row')
          /\ ArmPrefetch(display_row' + PREFETCH_LINES - 1)
  /\ handler' = IF copy' = None THEN "none" ELSE "line"
  /\ UNCHANGED <<timing, beam, pixel>>

\* prefetch_line_blocking ends in start_line_transfer.
LineCopied ==
  /\ handler = "line"
  /\ handler' = "none" /\ copy' = None
  /\ UNCHANGED <<timing, beam, irq, display_row, next_line_addr, pixel, prefetch, lines>>

\* start_frame_transfer up to its first copy: all three channels and the
\* pixel state machine are stopped.  The frame goes before the line.
StartFrameTransfer ==
  /\ handler = "none" /\ "frame" \in irq
  /\ irq' = irq \ {"frame"}
  /\ handler' = "frame" /\ copy' = 0
  /\ lines' = StartCopy(0)
  /\ display_row' = 0
  /\ next_line_addr' = None /\ pixel' = None /\ prefetch' = None
  /\ UNCHANGED <<timing, beam>>

FrameLineCopied ==
  /\ handler = "frame" /\ copy < PREFETCH_LINES - 1
  /\ copy' = copy + 1
  /\ lines' = StartCopy(copy + 1)
  /\ UNCHANGED <<timing, beam, irq, handler, display_row, next_line_addr, pixel, prefetch>>

\* After the last copy the pixel channel starts, and waits for pixels to go
\* out before it gets past the first few.
FramePrefetched ==
  /\ handler = "frame" /\ copy = PREFETCH_LINES - 1
  /\ handler' = "none" /\ copy' = None
  /\ next_line_addr' = SlotOf(1)
  /\ pixel' = SlotOf(0)
  /\ UNCHANGED <<timing, beam, irq, display_row, prefetch, lines>>

LineIsr == StartLineTransfer \/ LineCopied \/ StartFrameTransfer \/ FrameLineCopied \/ FramePrefetched

-----------------------------------------------------------------------------
Next == PutTimingWord \/ ExecuteTimingWord \/ ChainLine \/ PrefetchDone \/ LineIsr

Spec == Init /\ [][Next]_vars

-----------------------------------------------------------------------------
\* Every variable keeps its type; no slot outside prefetched_lines is touched.
TypeOK ==
  /\ timing_row \in 0 .. V_FRONT - 1 /\ timing_phase \in 0 .. 3
  /\ timing_fifo \in Seq({"nop", "pixels", "line", "frame"})
  /\ Len(timing_fifo) <= FIFO_WORDS
  /\ beam \in {"porch", "pixels", "tail"}
  /\ irq \subseteq {"line", "frame"} /\ handler \in {"none", "line", "frame"}
  /\ copy \in Row \cup {None} /\ prefetch \in Row \cup {None}
  /\ display_row \in 0 .. HEIGHT + 1
  /\ next_line_addr \in Slot \cup {None} /\ pixel \in Slot \cup {None}
  /\ lines \in [Slot -> Row \cup {None}]

\* The slot the pixel channel reads, once it is past the frame's first line.
Scanned == IF Position > 0 \/ beam = "tail" THEN pixel ELSE None

(***************************************************************************)
(* No line is overwritten while it goes to the panel, however slow the     *)
(* prefetch is and although a blocking copy may run into the next line.    *)
(* The first line is left out: the interrupt before it arms the prefetch   *)
(* of row PREFETCH_LINES, into its slot.                                   *)
(***************************************************************************)
PrefetchKeepsOffScan ==
  \A row \in {prefetch, copy} : row # None => SlotOf(row) # Scanned

(***************************************************************************)
(* The handler that resets the pipeline for a new frame runs between two   *)
(* pictures, however long its copies take, because timing_isr cannot       *)
(* refill the queue meanwhile and the panel waits.                         *)
(***************************************************************************)
FrameHandledInBlanking ==
  handler = "frame" => BeamRow >= V_DISPLAY \/ BeamRow < V_BACK

(***************************************************************************)
(* Down the panel none of the rows is left out or shown again, although    *)
(* the lines are reused in a ring, a prefetch may be cut short and the     *)
(* handler that counts the lines may be late.  Only the last line shows an *)
(* old row, for nothing fetches row HEIGHT.                                *)
(***************************************************************************)
RowsFollowEachOther ==
  [][ChainLine /\ Position > 0 /\ display_row < HEIGHT - 1
       => lines[pixel'] = lines[pixel] + 1]_vars

(***************************************************************************)
(* "scans a full 480x480 framebuffer": a line of the panel, here from the  *)
(* second one on, shows the framebuffer's row of the same number.          *)
(***************************************************************************)
EachLineShowsItsRow ==
  beam = "pixels" /\ Position > 0 /\ pixel # None => lines[pixel] = Position
=============================================================================
