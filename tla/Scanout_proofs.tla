---------------------------- MODULE Scanout_proofs ----------------------------
(***************************************************************************)
(* Proofs about Scanout, for a panel, a ring and a queue of any size.      *)
(*                                                                         *)
(* Everything hangs on where the timing state machine is.  The words of a  *)
(* picture are numbered; the queue holds those from BeamWord on.  While    *)
(* line_isr runs or an interrupt waits nothing is put, so what happens     *)
(* until it has been served is bounded by what the queue holds: no second  *)
(* line interrupt is merged into one that waits, display_row counts the    *)
(* lines exactly, and the slots follow from display_row.                   *)
(***************************************************************************)
EXTENDS Scanout, SequenceTheorems, TLAPS

Words == 4 * V_FRONT

\* Numbers of words go round.
Unwrapped(n) == IF n < 0 THEN n + Words ELSE n

Wrapped(n) == IF n >= Words THEN n - Words ELSE n

\* The number of the word that is executed next.
BeamWord == Unwrapped(4 * timing_row + timing_phase - Len(timing_fifo))

BeamPhase == BeamWord % 4

WordAt(n) == Instruction(n \div 4, n % 4)

\* The queue holds the words from BeamWord on.
Queued == \A i \in 1 .. Len(timing_fifo) : timing_fifo[i] = WordAt(Wrapped(BeamWord + i - 1))

\* Only in a displayed row, when its third word is out, are there pixels.
BeamInRow ==
  IF V_BACK <= BeamRow /\ BeamRow < V_DISPLAY /\ BeamPhase = 3
  THEN beam \in {"pixels", "tail"} ELSE beam = "porch"

\* How many line interrupts the picture has had.
Raised == IF V_BACK <= BeamRow /\ BeamRow <= V_DISPLAY THEN Position + 1 ELSE 0

\* None of them is lost.
LinesCounted ==
  "frame" \notin irq => display_row = IF "line" \in irq THEN Raised - 1 ELSE Raised

\* The words executed since the one that raised the frame interrupt.
SinceFrame ==
  IF BeamRow > V_DISPLAY THEN BeamWord - 4 * (V_DISPLAY + 1) ELSE BeamWord + 4 * (V_BLANK - 1)

\* Until the frame interrupt has been served the queue is not refilled.
FrameWaits ==
  /\ "frame" \in irq \/ handler = "frame" =>
       /\ "line" \notin irq /\ pixel = None
       /\ SinceFrame + Len(timing_fifo) < FIFO_WORDS
  /\ "frame" \in irq => handler = "none"
  /\ handler = "frame" =>
       /\ copy \in 0 .. PREFETCH_LINES - 1 /\ display_row = 0 /\ prefetch = None

\* Nor is it until a line interrupt has been served, which happens in its row.
LineWaits ==
  "line" \in irq => Raised > 0 /\ beam # "tail" /\ BeamPhase + Len(timing_fifo) < FIFO_WORDS

\* Nor while a line interrupt copies; the copy is of the row the ring takes next.
CopyWaits ==
  /\ handler = "line" =>
       /\ copy = display_row + PREFETCH_LINES - 1 /\ display_row > 0 /\ copy < HEIGHT
       /\ BeamWord + Len(timing_fifo) < 4 * (V_BACK + display_row - 1) + FIFO_WORDS
  /\ handler = "none" => copy = None

\* So is the row that is prefetched.
Prefetching ==
  prefetch # None => prefetch = display_row + PREFETCH_LINES - 1 /\ display_row > 0

\* The row that the pixel channel has to show: from the second line on one too many.
RowDue ==
  CASE beam = "tail" -> Position + 2
    [] beam # "tail" /\ 0 < Position /\ Position <= HEIGHT -> Position + 1
    [] OTHER -> 0

\* The pixel channel and what restarts it, from the first frame interrupt on.
PixelFollows ==
  pixel # None =>
    /\ RowDue <= HEIGHT /\ pixel = SlotOf(RowDue)
    /\ next_line_addr = IF display_row < HEIGHT THEN SlotOf(display_row + 1) ELSE None

\* The ring holds the rows from display_row on.
RowsHeld ==
  /\ pixel # None =>
       \A row \in Row : display_row <= row /\ row < display_row + PREFETCH_LINES
                          => lines[SlotOf(row)] = row
  /\ handler = "frame" => \A row \in 0 .. copy : lines[SlotOf(row)] = row

IInv ==
  /\ TypeOK /\ Queued /\ BeamInRow /\ LinesCounted /\ FrameWaits /\ LineWaits
  /\ CopyWaits /\ Prefetching /\ PixelFollows /\ RowsHeld

\* What start_line_transfer makes of a line of the panel, between the first and
\* the last one: the framebuffer's next row.
EachLineShowsNextRow ==
  beam = "pixels" /\ 0 < Position /\ Position < HEIGHT - 1 /\ pixel # None
    => lines[pixel] = Position + 1

-----------------------------------------------------------------------------
\* What is assumed of the sizes.
LEMMA Sizes ==
  /\ HEIGHT \in Nat /\ PREFETCH_LINES \in Nat /\ V_BACK \in Nat /\ V_BLANK \in Nat
  /\ FIFO_WORDS \in Nat
  /\ 3 <= PREFETCH_LINES /\ PREFETCH_LINES <= HEIGHT
  /\ 1 <= V_BACK /\ 1 <= V_BLANK /\ 1 <= FIFO_WORDS
  /\ FIFO_WORDS <= 8 /\ FIFO_WORDS <= 4 * (V_BLANK + V_BACK - 1)
  /\ V_DISPLAY = HEIGHT + V_BACK /\ V_FRONT = V_DISPLAY + V_BLANK
BY PanelAssumption, QueueAssumption DEF V_DISPLAY, V_FRONT

\* Quotient and remainder.
LEMMA Division ==
  ASSUME NEW m \in Nat \ {0}, NEW x \in Int
  PROVE  x = m * (x \div m) + (x % m) /\ x \div m \in Int /\ x % m \in 0 .. m - 1
OBVIOUS

LEMMA Products ==
  ASSUME NEW m \in Nat \ {0}, NEW k \in Int, NEW l \in Int
  PROVE  /\ m * k \in Int /\ m * k - m * l = m * (k - l)
         /\ k > 0 => m * k >= m
         /\ k <= 0 => m * k <= 0
<1>1. m * k \in Int /\ m * k - m * l = m * (k - l)
  OBVIOUS
<1>2. (k > 0 => m * k >= m) /\ (k <= 0 => m * k <= 0)
  OBVIOUS
<1> QED
  BY <1>1, <1>2

\* Numbers less than m apart have different remainders.
LEMMA RemaindersDiffer ==
  ASSUME NEW m \in Nat \ {0}, NEW x \in Int, NEW y \in Int, x < y, y < x + m
  PROVE  x % m # y % m
<1> SUFFICES ASSUME x % m = y % m PROVE FALSE
  OBVIOUS
<1> DEFINE k == y \div m
           l == x \div m
<1>1. k \in Int /\ l \in Int /\ y = m * k + (x % m) /\ x = m * l + (x % m) /\ x % m \in Int
  BY Division
<1> HIDE DEF k, l
<1>2. y - x = m * (k - l) /\ k - l \in Int
  BY <1>1, Products
<1>3. (k - l > 0 => m * (k - l) >= m) /\ (k - l <= 0 => m * (k - l) <= 0)
  BY <1>2, Products
<1> QED
  BY <1>2, <1>3

\* A number below m, and the remainder of its sum with m.
LEMMA RemainderOfSum ==
  ASSUME NEW m \in Nat \ {0}, NEW x \in 0 .. m - 1
  PROVE  (x + m) % m = x
<1> DEFINE k == (x + m) \div m
           r == (x + m) % m
<1>1. k \in Int /\ r \in 0 .. m - 1 /\ x + m = m * k + r
  BY Division
<1> HIDE DEF k, r
<1>2. x - r = m * (k - 1)
  BY <1>1, Products
<1>3. m * (k - 1) = 0
  BY <1>1, <1>2, Products
<1> QED
  BY <1>1, <1>2, <1>3 DEF r

\* Rows less than a ring apart have different slots.
LEMMA SlotsDiffer ==
  /\ \A row \in Int : SlotOf(row) \in Slot
  /\ \A x, y \in Int : x < y /\ y < x + PREFETCH_LINES => SlotOf(x) # SlotOf(y)
<1>1. \A row \in Int : SlotOf(row) \in Slot
  BY Sizes, Division DEF SlotOf, Slot
<1>2. ASSUME NEW x \in Int, NEW y \in Int, x < y, y < x + PREFETCH_LINES
      PROVE  SlotOf(x) # SlotOf(y)
  <2>1. PREFETCH_LINES \in Nat \ {0}
    BY Sizes
  <2>2. x % PREFETCH_LINES # y % PREFETCH_LINES
    BY <1>2, <2>1, RemaindersDiffer
  <2> QED
    BY <2>2 DEF SlotOf
<1> QED
  BY <1>1, <1>2

-----------------------------------------------------------------------------
\* BeamRow and BeamPhase are the row and the phase of BeamWord.
LEMMA BeamPlace ==
  ASSUME NEW row \in 0 .. V_FRONT - 1, NEW phase \in 0 .. 3, NEW n \in 0 .. FIFO_WORDS
  PROVE  LET w == Unwrapped(4 * row + phase - n)
         IN  /\ w \in 0 .. Words - 1 /\ w = 4 * (w \div 4) + (w % 4)
             /\ w % 4 \in 0 .. 3 /\ w \div 4 \in 0 .. V_FRONT - 1
             /\ ((4 * (V_FRONT + row) + phase - n) % (4 * V_FRONT)) \div 4 = w \div 4
<1> DEFINE m == 4 * row + phase - n
           w == Unwrapped(m)
<1>1. w = (IF m < 0 THEN m + Words ELSE m) /\ w \in 0 .. Words - 1 /\ Words \in Nat \ {0}
  BY Sizes DEF Words, Unwrapped
<1> HIDE DEF w
<1>2. w = 4 * (w \div 4) + (w % 4) /\ w % 4 \in 0 .. 3 /\ w \div 4 \in Int
  BY <1>1, Division
<1>3. w \div 4 \in 0 .. V_FRONT - 1
  BY <1>1, <1>2, Sizes DEF Words
<1>4. (4 * (V_FRONT + row) + phase - n) % (4 * V_FRONT) = w
  <2>1. 4 * (V_FRONT + row) + phase - n = m + Words /\ 4 * V_FRONT = Words
    BY Sizes DEF Words
  <2>2. CASE m < 0
    <3>1. m + Words \in 0 .. Words - 1 /\ w = m + Words
      BY <1>1, <2>2
    <3>2. (m + Words) % Words = m + Words
      BY <1>1, <3>1
    <3> QED
      BY <2>1, <3>1, <3>2
  <2>3. CASE ~ (m < 0)
    BY <1>1, <2>1, <2>3, RemainderOfSum
  <2> QED
    BY <2>2, <2>3
<1> QED
  BY <1>1, <1>2, <1>3, <1>4 DEF w

\* The word after a word, and the first of a queue from which one is taken.
LEMMA NextWord ==
  ASSUME NEW row \in 0 .. V_FRONT - 1, NEW phase \in 0 .. 3,
         NEW row2 \in Int, NEW phase2 \in 0 .. 3,
         4 * row2 + phase2 = Wrapped(4 * row + phase + 1)
  PROVE  /\ phase2 = IF phase = 3 THEN 0 ELSE phase + 1
         /\ row2 = IF phase < 3 THEN row ELSE IF row = V_FRONT - 1 THEN 0 ELSE row + 1
<1>1. V_FRONT \in Nat
  BY Sizes
<1> QED
  BY <1>1 DEF Wrapped, Words

LEMMA FirstAfterTake ==
  ASSUME NEW row \in 0 .. V_FRONT - 1, NEW phase \in 0 .. 3, NEW n \in 1 .. FIFO_WORDS
  PROVE  Unwrapped(4 * row + phase - (n - 1)) = Wrapped(Unwrapped(4 * row + phase - n) + 1)
<1>1. V_FRONT \in Nat /\ V_FRONT > 3 /\ n \in 1 .. 8
  BY Sizes
<1> QED
  BY <1>1 DEF Unwrapped, Wrapped, Words

LEMMA Beam ==
  ASSUME TypeOK
  PROVE  /\ BeamWord \in 0 .. Words - 1 /\ BeamWord = 4 * BeamRow + BeamPhase
         /\ BeamPhase \in 0 .. 3 /\ BeamRow \in 0 .. V_FRONT - 1
         /\ BeamRow = BeamWord \div 4
         /\ Len(timing_fifo) \in 0 .. FIFO_WORDS
<1>1. Len(timing_fifo) \in 0 .. FIFO_WORDS
  BY Sizes DEF TypeOK
<1> QED
  BY <1>1, BeamPlace DEF TypeOK, BeamWord, BeamRow, BeamPhase

LEMMA BeamNext ==
  ASSUME timing_row' \in 0 .. V_FRONT - 1, timing_phase' \in 0 .. 3,
         Len(timing_fifo') \in 0 .. FIFO_WORDS
  PROVE  /\ BeamWord' = Unwrapped(4 * timing_row' + timing_phase' - Len(timing_fifo'))
         /\ BeamWord' \in 0 .. Words - 1 /\ BeamWord' = 4 * BeamRow' + BeamPhase'
         /\ BeamPhase' \in 0 .. 3 /\ BeamRow' \in 0 .. V_FRONT - 1
         /\ BeamRow' = BeamWord' \div 4 /\ BeamPhase' = BeamWord' % 4
<1>1. BeamWord' = Unwrapped(4 * timing_row' + timing_phase' - Len(timing_fifo'))
  BY DEF BeamWord, Unwrapped, Words, V_FRONT, V_DISPLAY
<1>2. /\ BeamRow' = ((4 * (V_FRONT + timing_row') + timing_phase' - Len(timing_fifo'))
                        % (4 * V_FRONT)) \div 4
      /\ BeamPhase' = BeamWord' % 4
  BY DEF BeamRow, BeamPhase, V_FRONT, V_DISPLAY
<1> QED
  BY <1>1, <1>2, BeamPlace

\* A put adds the next word at the end of the queue.
LEMMA PutMoves ==
  ASSUME TypeOK, Queued, PutTimingWord
  PROVE  /\ BeamWord' = BeamWord /\ BeamRow' = BeamRow /\ BeamPhase' = BeamPhase
         /\ Len(timing_fifo') = Len(timing_fifo) + 1
         /\ timing_row' \in 0 .. V_FRONT - 1 /\ timing_phase' \in 0 .. 3
         /\ timing_fifo' \in Seq({"nop", "pixels", "line", "frame"})
         /\ Queued'
<1> DEFINE n == Len(timing_fifo)
           word == Instruction(timing_row, timing_phase)
<1>0. timing_fifo \in Seq({"nop", "pixels", "line", "frame"}) /\ n < FIFO_WORDS
  BY DEF TypeOK, PutTimingWord
<1>1. timing_row \in 0 .. V_FRONT - 1 /\ timing_phase \in 0 .. 3 /\ n \in Nat /\ n < FIFO_WORDS
  BY <1>0, LenProperties DEF TypeOK
<1>2. word \in {"nop", "pixels", "line", "frame"}
  BY DEF Instruction
<1>3. /\ timing_fifo' \in Seq({"nop", "pixels", "line", "frame"}) /\ Len(timing_fifo') = n + 1
      /\ \A i \in 1 .. n : timing_fifo'[i] = timing_fifo[i]
      /\ timing_fifo'[n + 1] = word
  BY <1>0, <1>2, AppendProperties DEF PutTimingWord
<1> HIDE DEF n, word
<1>4. /\ timing_phase' = IF timing_phase = 3 THEN 0 ELSE timing_phase + 1
      /\ timing_row' = IF timing_phase = 3
                       THEN IF timing_row = V_FRONT - 1 THEN 0 ELSE timing_row + 1
                       ELSE timing_row
  <2>1. (timing_phase + 1) % 4 = IF timing_phase = 3 THEN 0 ELSE timing_phase + 1
    BY <1>1
  <2>2. (timing_row + 1) % V_FRONT = IF timing_row = V_FRONT - 1 THEN 0 ELSE timing_row + 1
    <3>1. CASE timing_row = V_FRONT - 1
      BY <1>1, <3>1, Sizes, RemainderOfSum
    <3>2. CASE timing_row # V_FRONT - 1
      BY <1>1, <3>2, Sizes
    <3> QED
      BY <3>1, <3>2
  <2> QED
    BY <2>1, <2>2 DEF PutTimingWord
<1>5. /\ timing_row' \in 0 .. V_FRONT - 1 /\ timing_phase' \in 0 .. 3
      /\ 4 * timing_row' + timing_phase' =
           IF 4 * timing_row + timing_phase = Words - 1 THEN 0
           ELSE 4 * timing_row + timing_phase + 1
  BY <1>1, <1>4, Sizes DEF Words
<1>6. BeamWord' = BeamWord
  <2> DEFINE put == 4 * timing_row' + timing_phase'
  <2>1. BeamWord' = Unwrapped(put - (n + 1))
    BY <1>1, <1>3, <1>5, BeamNext, Sizes
  <2>2. n \in 0 .. 8
    BY <1>1, Sizes
  <2>3. V_FRONT \in Nat /\ V_FRONT > 3
    BY Sizes
  <2>4. put \in Int /\ put = IF 4 * timing_row + timing_phase = Words - 1 THEN 0
                             ELSE 4 * timing_row + timing_phase + 1
    BY <1>5, <2>3
  <2> HIDE DEF put
  <2>5. Unwrapped(put - (n + 1)) = Unwrapped(4 * timing_row + timing_phase - n)
    BY <1>1, <2>2, <2>3, <2>4 DEF Unwrapped, Words
  <2>6. BeamWord = Unwrapped(4 * timing_row + timing_phase - n)
    BY DEF BeamWord, n
  <2> QED
    BY <2>1, <2>5, <2>6
<1>7. BeamRow' = BeamRow /\ BeamPhase' = BeamPhase
  <2>1. BeamRow = BeamWord \div 4
    BY Beam
  <2>2. BeamRow' = BeamWord' \div 4
    BY <1>1, <1>3, <1>5, BeamNext, Sizes
  <2> QED
    BY <1>6, <2>1, <2>2 DEF BeamPhase
<1>8. WordAt(Wrapped(BeamWord + n)) = word
  <2>1. Wrapped(BeamWord + n) = 4 * timing_row + timing_phase
    BY <1>1, Sizes DEF BeamWord, Unwrapped, Wrapped, Words, n
  <2>2. /\ (4 * timing_row + timing_phase) \div 4 = timing_row
        /\ (4 * timing_row + timing_phase) % 4 = timing_phase
    BY <1>1, Sizes
  <2> QED
    BY <2>1, <2>2 DEF WordAt, word
<1>9. Queued'
  <2>1. ASSUME NEW i \in 1 .. n + 1
        PROVE  timing_fifo'[i] = WordAt(Wrapped(BeamWord + i - 1))
    <3>1. CASE i = n + 1
      <4>1. BeamWord + i - 1 = BeamWord + n
        BY <1>1, <3>1, Beam
      <4> QED
        BY <1>3, <1>8, <3>1, <4>1
    <3>2. CASE i \in 1 .. n
      BY <1>3, <3>2 DEF Queued, n
    <3> QED
      BY <1>1, <2>1, <3>1, <3>2
  <2> QED
    BY <1>3, <1>6, <2>1 DEF Queued, WordAt, Wrapped, Instruction, Words, n
<1> QED
  BY <1>3, <1>5, <1>6, <1>7, <1>9 DEF n

\* The state machine takes the word it is at and goes on to the next.
LEMMA ExecuteMoves ==
  ASSUME TypeOK, Queued, ExecuteTimingWord
  PROVE  /\ Head(timing_fifo) = Instruction(BeamRow, BeamPhase)
         /\ Len(timing_fifo) > 0 /\ Len(timing_fifo') = Len(timing_fifo) - 1
         /\ timing_fifo' \in Seq({"nop", "pixels", "line", "frame"})
         /\ BeamWord' = Wrapped(BeamWord + 1)
         /\ BeamPhase' = IF BeamPhase = 3 THEN 0 ELSE BeamPhase + 1
         /\ BeamRow' = IF BeamPhase < 3 THEN BeamRow
                       ELSE IF BeamRow = V_FRONT - 1 THEN 0 ELSE BeamRow + 1
         /\ Queued'
<1> DEFINE n == Len(timing_fifo)
<1>1. /\ timing_row \in 0 .. V_FRONT - 1 /\ timing_phase \in 0 .. 3 /\ n \in 1 .. FIFO_WORDS
      /\ timing_fifo \in Seq({"nop", "pixels", "line", "frame"}) /\ timing_fifo # <<>>
      /\ timing_row' = timing_row /\ timing_phase' = timing_phase
  BY Sizes, EmptySeq, LenProperties DEF TypeOK, ExecuteTimingWord, timing
<1>2. /\ timing_fifo' \in Seq({"nop", "pixels", "line", "frame"}) /\ Len(timing_fifo') = n - 1
      /\ \A i \in 1 .. n - 1 : timing_fifo'[i] = timing_fifo[i + 1]
      /\ Head(timing_fifo) = timing_fifo[1]
  BY <1>1, HeadTailProperties DEF ExecuteTimingWord
<1>3. BeamWord' = Wrapped(BeamWord + 1)
  <2>1. BeamWord' = Unwrapped(4 * timing_row + timing_phase - (n - 1))
    BY <1>1, <1>2, BeamNext, Sizes
  <2>2. BeamWord = Unwrapped(4 * timing_row + timing_phase - n)
    BY DEF BeamWord
  <2> QED
    BY <1>1, <2>1, <2>2, FirstAfterTake
<1>4. /\ BeamRow' = BeamWord' \div 4 /\ BeamPhase' \in 0 .. 3
      /\ BeamWord' = 4 * BeamRow' + BeamPhase' /\ BeamRow' \in Int
  BY <1>1, <1>2, BeamNext, Sizes
<1>5. /\ BeamPhase' = IF BeamPhase = 3 THEN 0 ELSE BeamPhase + 1
      /\ BeamRow' = IF BeamPhase < 3 THEN BeamRow
                    ELSE IF BeamRow = V_FRONT - 1 THEN 0 ELSE BeamRow + 1
  <2>1. 4 * BeamRow' + BeamPhase' = Wrapped(4 * BeamRow + BeamPhase + 1)
    BY <1>3, <1>4, Beam
  <2>2. BeamPhase \in 0 .. 3 /\ BeamRow \in 0 .. V_FRONT - 1
    BY Beam
  <2> QED
    BY <1>4, <2>1, <2>2, NextWord
<1>6. Head(timing_fifo) = Instruction(BeamRow, BeamPhase)
  <2>1. timing_fifo[1] = WordAt(Wrapped(BeamWord + 1 - 1))
    BY <1>1 DEF Queued
  <2>2. Wrapped(BeamWord + 1 - 1) = BeamWord
    BY Beam, Sizes DEF Wrapped, Words
  <2> QED
    BY <1>2, <2>1, <2>2, Beam DEF WordAt, BeamPhase
<1>7. Queued'
  <2>1. ASSUME NEW i \in 1 .. n - 1
        PROVE  timing_fifo'[i] = WordAt(Wrapped(BeamWord' + i - 1))
    <3>1. timing_fifo'[i] = WordAt(Wrapped(BeamWord + (i + 1) - 1))
      BY <1>1, <1>2 DEF Queued
    <3>2. Wrapped(BeamWord + (i + 1) - 1) = Wrapped(Wrapped(BeamWord + 1) + i - 1)
      BY <1>1, Beam, Sizes DEF Wrapped, Words
    <3> QED
      BY <1>3, <3>1, <3>2
  <2> QED
    BY <1>2, <2>1 DEF Queued, WordAt, Wrapped, Instruction, Words
<1> QED
  BY <1>1, <1>2, <1>3, <1>5, <1>6, <1>7

-----------------------------------------------------------------------------
\* What the model says of a slot that is written.
Contents == [Slot -> Row \cup {None}]

LEMMA CopyStarts ==
  ASSUME lines \in Contents, NEW row \in Row
  PROVE  /\ StartCopy(row) \in Contents /\ StartCopy(row)[SlotOf(row)] = row
         /\ \A s \in Slot : s # SlotOf(row) => StartCopy(row)[s] = lines[s]
<1>1. SlotOf(row) \in Slot
  BY SlotsDiffer, Sizes DEF Row
<1> QED
  BY <1>1 DEF StartCopy, Contents

LEMMA InitHolds ==
  ASSUME Init
  PROVE  IInv
<1>1. TypeOK
  <2>1. timing_fifo \in Seq({"nop", "pixels", "line", "frame"}) /\ Len(timing_fifo) = 0
    BY EmptySeq DEF Init
  <2> QED
    BY <2>1, Sizes DEF Init, TypeOK, None
<1>2. Len(timing_fifo) = 0 /\ BeamWord = 0 /\ BeamRow = 0 /\ BeamPhase = 0
  <2>1. Len(timing_fifo) = 0
    BY EmptySeq DEF Init
  <2>2. BeamWord = 0
    <3>1. timing_row = 0 /\ timing_phase = 0
      BY DEF Init
    <3> QED
      BY <2>1, <3>1 DEF BeamWord, Unwrapped
  <2> QED
    BY <1>1, <2>1, <2>2, Beam
<1>3. Queued
  BY <1>2 DEF Queued
<1>4. ~ (V_BACK <= BeamRow) /\ Raised = 0
  BY <1>2, Sizes DEF Raised
<1>5. BeamInRow /\ LinesCounted
  <2>1. beam = "porch" /\ irq = {} /\ display_row = 0
    BY DEF Init
  <2> QED
    BY <1>4, <2>1 DEF BeamInRow, LinesCounted
<1>6. FrameWaits /\ LineWaits /\ CopyWaits /\ Prefetching
  BY DEF Init, FrameWaits, LineWaits, CopyWaits, Prefetching
<1>7. PixelFollows /\ RowsHeld
  BY DEF Init, PixelFollows, RowsHeld
<1> QED
  BY <1>1, <1>3, <1>5, <1>6, <1>7 DEF IInv

\* What depends on the state machine's place only.
LEMMA PlaceKept ==
  ASSUME BeamWord' = BeamWord, BeamRow' = BeamRow
  PROVE  /\ BeamPhase' = BeamPhase /\ Position' = Position /\ Raised' = Raised
         /\ SinceFrame' = SinceFrame
BY DEF BeamPhase, Position, Raised, SinceFrame, V_DISPLAY

\* A step of something else leaves the state machine and its queue alone.
LEMMA OthersMove ==
  ASSUME Queued, UNCHANGED timing
  PROVE  /\ BeamWord' = BeamWord /\ BeamRow' = BeamRow /\ BeamPhase' = BeamPhase
         /\ Position' = Position /\ Raised' = Raised /\ SinceFrame' = SinceFrame
         /\ timing_row' = timing_row /\ timing_phase' = timing_phase /\ timing_fifo' = timing_fifo
         /\ Queued'
<1>1. timing_row' = timing_row /\ timing_phase' = timing_phase /\ timing_fifo' = timing_fifo
  BY DEF timing
<1>2. BeamWord' = BeamWord
  BY <1>1 DEF BeamWord, Unwrapped, Words, V_FRONT, V_DISPLAY
<1>3. BeamRow' = BeamRow
  BY <1>1 DEF BeamRow, V_FRONT, V_DISPLAY
<1>4. Queued'
  BY <1>1, <1>2 DEF Queued, WordAt, Wrapped, Instruction, Words, V_FRONT, V_DISPLAY
<1> QED
  BY <1>1, <1>2, <1>3, <1>4, PlaceKept

\* Nothing waits and no handler runs when a word is put.
LEMMA PutKeeps ==
  ASSUME IInv, PutTimingWord
  PROVE  IInv'
<1>1. /\ handler = "none" /\ irq = {} /\ Len(timing_fifo) < FIFO_WORDS
      /\ UNCHANGED <<beam, irq, handler, copy, display_row, next_line_addr, pixel, prefetch, lines>>
  BY DEF PutTimingWord
<1>2. TypeOK /\ Queued
  BY DEF IInv
<1>3. /\ BeamWord' = BeamWord /\ BeamRow' = BeamRow /\ BeamPhase' = BeamPhase
      /\ Position' = Position /\ Raised' = Raised
  BY <1>2, PutMoves, PlaceKept
<1>4. TypeOK'
  <2>1. /\ timing_row' \in 0 .. V_FRONT - 1 /\ timing_phase' \in 0 .. 3
        /\ timing_fifo' \in Seq({"nop", "pixels", "line", "frame"})
        /\ Len(timing_fifo') = Len(timing_fifo) + 1
    BY <1>2, PutMoves
  <2>2. Len(timing_fifo') <= FIFO_WORDS
    BY <1>1, <1>2, <2>1, Beam, Sizes
  <2> QED
    BY <1>1, <1>2, <2>1, <2>2 DEF TypeOK, V_FRONT, V_DISPLAY, Row, Slot
<1>5. Queued'
  BY <1>2, PutMoves
<1>6. BeamInRow' /\ LinesCounted' /\ FrameWaits' /\ LineWaits' /\ CopyWaits' /\ Prefetching'
  BY <1>1, <1>3 DEF IInv, BeamInRow, LinesCounted, FrameWaits, LineWaits, CopyWaits, Prefetching, V_DISPLAY
<1>7. PixelFollows' /\ RowsHeld'
  BY <1>1, <1>3 DEF IInv, PixelFollows, RowsHeld, RowDue, SlotOf, Row
<1> QED
  BY <1>4, <1>5, <1>6, <1>7 DEF IInv

\* The numbers of a state, for arithmetic.
LEMMA Numbers ==
  ASSUME TypeOK
  PROVE  /\ BeamRow \in Int /\ BeamPhase \in 0 .. 3 /\ Len(timing_fifo) \in 0 .. 8
         /\ BeamRow >= 0 /\ BeamRow < V_FRONT /\ BeamWord = 4 * BeamRow + BeamPhase
         /\ Len(timing_fifo) <= FIFO_WORDS /\ display_row \in 0 .. HEIGHT + 1
         /\ Position = BeamRow - V_BACK /\ Position \in Int
         /\ Raised = (IF V_BACK <= BeamRow /\ BeamRow <= V_DISPLAY
                      THEN BeamRow - V_BACK + 1 ELSE 0)
<1>1. display_row \in 0 .. HEIGHT + 1
  BY DEF TypeOK
<1>2. BeamRow \in Int /\ V_BACK \in Int
  BY Beam, Sizes
<1>3. Position = BeamRow - V_BACK /\ Position \in Int
  BY <1>2 DEF Position
<1>4. Raised = IF V_BACK <= BeamRow /\ BeamRow <= V_DISPLAY THEN BeamRow - V_BACK + 1 ELSE 0
  BY <1>3 DEF Raised
<1>5. /\ BeamPhase \in 0 .. 3 /\ Len(timing_fifo) \in 0 .. FIFO_WORDS
      /\ BeamRow \in 0 .. V_FRONT - 1 /\ BeamWord = 4 * BeamRow + BeamPhase
  BY Beam
<1>6. Len(timing_fifo) \in 0 .. 8 /\ Len(timing_fifo) <= FIFO_WORDS
  <2>1. \A n \in 0 .. FIFO_WORDS : n \in 0 .. 8 /\ n <= FIFO_WORDS
    BY Sizes
  <2> QED
    BY <1>5, <2>1
<1>7. BeamRow >= 0 /\ BeamRow < V_FRONT
  BY <1>5, Sizes
<1> QED
  BY <1>1, <1>2, <1>3, <1>4, <1>5, <1>6, <1>7

\* The panel waits for the frame interrupt in a row that is not displayed.
LEMMA FrameWaitsInBlanking ==
  ASSUME TypeOK, FrameWaits, "frame" \in irq \/ handler = "frame"
  PROVE  (BeamRow > V_DISPLAY \/ BeamRow < V_BACK) /\ Raised = 0
<1>1. BeamRow > V_DISPLAY \/ BeamRow < V_BACK
  <2>1. CASE ~ (BeamRow > V_DISPLAY)
    <3>1. BeamWord + 4 * (V_BLANK - 1) + Len(timing_fifo) < FIFO_WORDS
      BY <2>1 DEF FrameWaits, SinceFrame
    <3>2. /\ BeamWord = 4 * BeamRow + BeamPhase /\ BeamRow \in Int /\ BeamPhase \in Int
          /\ BeamPhase >= 0 /\ Len(timing_fifo) \in Int /\ Len(timing_fifo) >= 0
      BY Numbers
    <3>3. 4 * BeamRow < 4 * V_BACK
      BY <3>1, <3>2, Sizes
    <3> QED
      BY <3>2, <3>3, Sizes
  <2> QED
    BY <2>1
<1>2. Raised = (IF V_BACK <= BeamRow /\ BeamRow <= V_DISPLAY THEN BeamRow - V_BACK + 1 ELSE 0)
  BY Numbers
<1> QED
  BY <1>1, <1>2, Numbers, Sizes

LEMMA StartLineKeeps ==
  ASSUME IInv, StartLineTransfer
  PROVE  IInv'
<1> DEFINE d == display_row + 1
           row == d + (PREFETCH_LINES - 1)
<1>1. /\ TypeOK /\ Queued /\ BeamInRow /\ LinesCounted /\ FrameWaits /\ LineWaits
      /\ CopyWaits /\ Prefetching /\ PixelFollows /\ RowsHeld
  BY DEF IInv
<1>2. /\ handler = "none" /\ irq = {"line"} /\ irq' = {} /\ display_row' = d
      /\ UNCHANGED timing /\ beam' = beam /\ pixel' = pixel
      /\ handler' = IF copy' = None THEN "none" ELSE "line"
  BY DEF StartLineTransfer
<1>3. /\ BeamWord' = BeamWord /\ BeamRow' = BeamRow /\ BeamPhase' = BeamPhase
      /\ Position' = Position /\ Raised' = Raised /\ Queued'
      /\ timing_row' = timing_row /\ timing_phase' = timing_phase /\ timing_fifo' = timing_fifo
  BY <1>1, <1>2, OthersMove
\* The line that waits is the one of the row the panel is in.
<1>4. /\ d = Raised /\ d \in 1 .. HEIGHT + 1 /\ d \in Int /\ display_row \in Nat
      /\ BeamRow = V_BACK + d - 1 /\ Position = d - 1
      /\ beam # "tail" /\ BeamPhase + Len(timing_fifo) < FIFO_WORDS
  BY <1>1, <1>2, Numbers, Sizes DEF LinesCounted, LineWaits
<1>5. row \in Int /\ row = d + PREFETCH_LINES - 1
  BY <1>4, Sizes
<1>6. \/ /\ d = HEIGHT /\ next_line_addr' = None
         /\ prefetch' = None /\ copy' = None /\ lines' = lines
      \/ /\ d # HEIGHT /\ next_line_addr' = SlotOf(d + 1) /\ row >= HEIGHT
         /\ prefetch' = None /\ copy' = None /\ lines' = lines
      \/ /\ d # HEIGHT /\ next_line_addr' = SlotOf(d + 1) /\ row < HEIGHT
         /\ \/ prefetch' = None /\ copy' = row
            \/ prefetch' = row /\ copy' = None
         /\ lines' = StartCopy(row)
  BY <1>2 DEF StartLineTransfer, ArmPrefetch, NextLine
<1> HIDE DEF d, row
<1>7. row < HEIGHT => row \in Row
  BY <1>4, <1>5, Sizes DEF Row
<1>8. /\ lines \in Contents /\ lines' \in Contents
      /\ lines' # lines => row \in Row /\ lines' = StartCopy(row)
  BY <1>1, <1>6, <1>7, CopyStarts DEF TypeOK, Contents
<1>9. TypeOK'
  <2>1. d + 1 \in Int /\ SlotOf(d + 1) \in Slot
    BY <1>4, SlotsDiffer
  <2>2. next_line_addr' \in Slot \cup {None}
    BY <1>6, <2>1
  <2>3. copy' \in Row \cup {None} /\ prefetch' \in Row \cup {None}
    BY <1>6, <1>7
  <2>4. display_row' \in 0 .. HEIGHT + 1
    BY <1>2, <1>4
  <2> QED
    BY <1>1, <1>2, <1>3, <1>8, <2>2, <2>3, <2>4
       DEF TypeOK, Contents, V_FRONT, V_DISPLAY, Row, Slot
<1>10. BeamInRow' /\ LinesCounted' /\ FrameWaits' /\ LineWaits'
  <2>1. BeamInRow'
    BY <1>1, <1>2, <1>3 DEF BeamInRow, V_DISPLAY
  <2>2. LinesCounted'
    BY <1>2, <1>3, <1>4 DEF LinesCounted
  <2>3. FrameWaits' /\ LineWaits'
    BY <1>2 DEF FrameWaits, LineWaits
  <2> QED
    BY <2>1, <2>2, <2>3
<1>11. CopyWaits' /\ Prefetching'
  <2>1. row # None
    BY <1>4, <1>5, Sizes DEF None
  <2>2. BeamWord + Len(timing_fifo) < 4 * (V_BACK + d - 1) + FIFO_WORDS
    BY <1>1, <1>4, Numbers, Sizes
  <2>3. handler' = "line" => copy' = row /\ row < HEIGHT
    BY <1>2, <1>6
  <2>4. prefetch' # None => prefetch' = row
    BY <1>6
  <2> QED
    BY <1>2, <1>3, <1>4, <1>5, <2>2, <2>3, <2>4 DEF CopyWaits, Prefetching
<1>12. PixelFollows'
  <2>1. ASSUME pixel # None
        PROVE  /\ RowDue <= HEIGHT /\ pixel = SlotOf(RowDue) /\ d <= HEIGHT
    <3>1. RowDue <= HEIGHT /\ pixel = SlotOf(RowDue)
      BY <1>1, <2>1 DEF PixelFollows
    <3>2. d <= HEIGHT
      <4>1. CASE d = HEIGHT + 1
        BY <1>4, <3>1, <4>1, Sizes DEF RowDue
      <4> QED
        BY <1>4, <4>1, Sizes
    <3> QED
      BY <3>1, <3>2
  <2>2. RowDue' = RowDue
    BY <1>2, <1>3 DEF RowDue
  <2>3. d <= HEIGHT => next_line_addr' = IF d < HEIGHT THEN SlotOf(d + 1) ELSE None
    BY <1>4, <1>6, Sizes
  <2> QED
    BY <1>2, <1>4, <2>1, <2>2, <2>3 DEF PixelFollows, SlotOf
<1>13. RowsHeld'
  <2>1. ASSUME pixel # None, NEW r \in Row, d <= r, r < d + PREFETCH_LINES
        PROVE  lines'[SlotOf(r)] = r
    <3>1. r \in Int /\ r < HEIGHT /\ SlotOf(r) \in Slot
      BY Sizes, SlotsDiffer DEF Row
    <3>2. CASE r = row
      BY <1>4, <1>5, <1>6, <1>7, <1>8, <2>1, <3>1, <3>2, Sizes, CopyStarts
    <3>3. CASE r # row
      <4>1. r < row /\ row < r + PREFETCH_LINES
        BY <1>4, <1>5, <2>1, <3>1, <3>3, Sizes
      <4>2. SlotOf(r) # SlotOf(row)
        BY <1>5, <3>1, <4>1, SlotsDiffer
      <4>3. display_row <= r /\ r < display_row + PREFETCH_LINES
        BY <1>4, <1>5, <2>1, <3>1, <4>1, Sizes DEF d
      <4>4. lines[SlotOf(r)] = r
        BY <1>1, <2>1, <4>3 DEF RowsHeld
      <4> QED
        BY <1>8, <3>1, <4>2, <4>4, CopyStarts
    <3> QED
      BY <3>2, <3>3
  <2> QED
    BY <1>2, <2>1 DEF RowsHeld, SlotOf, Row
<1> QED
  BY <1>3, <1>9, <1>10, <1>11, <1>12, <1>13 DEF IInv

LEMMA LineCopiedKeeps ==
  ASSUME IInv, LineCopied
  PROVE  IInv'
<1>1. /\ TypeOK /\ Queued /\ BeamInRow /\ LinesCounted /\ FrameWaits /\ LineWaits
      /\ CopyWaits /\ Prefetching /\ PixelFollows /\ RowsHeld
  BY DEF IInv
<1>2. /\ handler = "line" /\ handler' = "none" /\ copy' = None
      /\ UNCHANGED timing
      /\ UNCHANGED <<beam, irq, display_row, next_line_addr, pixel, prefetch, lines>>
  BY DEF LineCopied
<1>3. /\ BeamWord' = BeamWord /\ BeamRow' = BeamRow /\ BeamPhase' = BeamPhase
      /\ Position' = Position /\ Raised' = Raised /\ Queued'
      /\ timing_row' = timing_row /\ timing_phase' = timing_phase /\ timing_fifo' = timing_fifo
  BY <1>1, <1>2, OthersMove
<1>4. TypeOK'
  BY <1>1, <1>2, <1>3 DEF TypeOK, V_FRONT, V_DISPLAY, Row, Slot
<1>5. BeamInRow' /\ LinesCounted' /\ FrameWaits' /\ LineWaits' /\ CopyWaits' /\ Prefetching'
  <2>1. "frame" \notin irq
    BY <1>1, <1>2 DEF FrameWaits
  <2> QED
    BY <1>1, <1>2, <1>3, <2>1
       DEF BeamInRow, LinesCounted, FrameWaits, LineWaits, CopyWaits, Prefetching, V_DISPLAY
<1>6. PixelFollows' /\ RowsHeld'
  BY <1>1, <1>2, <1>3 DEF PixelFollows, RowDue, RowsHeld, SlotOf, Row
<1> QED
  BY <1>3, <1>4, <1>5, <1>6 DEF IInv

\* Nothing of the last picture is left.
LEMMA StartFrameKeeps ==
  ASSUME IInv, StartFrameTransfer
  PROVE  IInv'
<1>1. /\ TypeOK /\ Queued /\ BeamInRow /\ LinesCounted /\ FrameWaits /\ LineWaits
      /\ CopyWaits /\ Prefetching /\ PixelFollows /\ RowsHeld
  BY DEF IInv
<1>2. /\ handler = "none" /\ "frame" \in irq /\ irq' = irq \ {"frame"}
      /\ handler' = "frame" /\ copy' = 0 /\ lines' = StartCopy(0) /\ display_row' = 0
      /\ next_line_addr' = None /\ pixel' = None /\ prefetch' = None
      /\ UNCHANGED timing /\ beam' = beam
  BY DEF StartFrameTransfer
<1>3. /\ BeamWord' = BeamWord /\ BeamRow' = BeamRow /\ BeamPhase' = BeamPhase
      /\ Position' = Position /\ Raised' = Raised /\ SinceFrame' = SinceFrame /\ Queued'
      /\ timing_row' = timing_row /\ timing_phase' = timing_phase /\ timing_fifo' = timing_fifo
  BY <1>1, <1>2, OthersMove
<1>4. /\ "line" \notin irq /\ irq' = {} /\ Raised = 0
      /\ SinceFrame + Len(timing_fifo) < FIFO_WORDS
  BY <1>1, <1>2, FrameWaitsInBlanking DEF FrameWaits, TypeOK
<1>5. 0 \in Row /\ 0 \in 0 .. PREFETCH_LINES - 1 /\ \A row \in 0 .. 0 : row = 0
  BY Sizes DEF Row
<1>6. lines' \in Contents /\ lines'[SlotOf(0)] = 0
  BY <1>1, <1>2, <1>5, CopyStarts DEF TypeOK, Contents
<1>7. TypeOK'
  <2>1. display_row' \in 0 .. HEIGHT + 1
    BY <1>2, Sizes
  <2> QED
    BY <1>1, <1>2, <1>3, <1>4, <1>5, <1>6, <2>1 DEF TypeOK, Contents, V_FRONT, V_DISPLAY, Row, Slot
<1>8. BeamInRow' /\ LinesCounted' /\ FrameWaits' /\ LineWaits' /\ CopyWaits' /\ Prefetching'
  BY <1>1, <1>2, <1>3, <1>4, <1>5
     DEF BeamInRow, LinesCounted, FrameWaits, LineWaits, CopyWaits, Prefetching, V_DISPLAY
<1>9. PixelFollows' /\ RowsHeld'
  BY <1>2, <1>5, <1>6 DEF PixelFollows, RowsHeld, SlotOf
<1> QED
  BY <1>3, <1>7, <1>8, <1>9 DEF IInv

LEMMA FrameLineKeeps ==
  ASSUME IInv, FrameLineCopied
  PROVE  IInv'
<1>1. /\ TypeOK /\ Queued /\ BeamInRow /\ LinesCounted /\ FrameWaits /\ LineWaits
      /\ CopyWaits /\ Prefetching /\ PixelFollows /\ RowsHeld
  BY DEF IInv
<1>2. /\ handler = "frame" /\ copy < PREFETCH_LINES - 1 /\ copy' = copy + 1
      /\ lines' = StartCopy(copy + 1)
      /\ UNCHANGED timing
      /\ UNCHANGED <<beam, irq, handler, display_row, next_line_addr, pixel, prefetch>>
  BY DEF FrameLineCopied
<1>3. /\ BeamWord' = BeamWord /\ BeamRow' = BeamRow /\ BeamPhase' = BeamPhase
      /\ Position' = Position /\ Raised' = Raised /\ SinceFrame' = SinceFrame /\ Queued'
      /\ timing_row' = timing_row /\ timing_phase' = timing_phase /\ timing_fifo' = timing_fifo
  BY <1>1, <1>2, OthersMove
<1>4. /\ copy \in 0 .. PREFETCH_LINES - 1 /\ copy \in Int /\ copy + 1 \in 0 .. PREFETCH_LINES - 1
      /\ copy + 1 \in Row
  BY <1>1, <1>2, Sizes DEF FrameWaits, Row
<1>5. lines' \in Contents /\ lines' = StartCopy(copy + 1)
  BY <1>1, <1>2, <1>4, CopyStarts DEF TypeOK, Contents
<1>6. \A row \in 0 .. copy + 1 : lines'[SlotOf(row)] = row
  <2>1. ASSUME NEW row \in 0 .. copy + 1
        PROVE  lines'[SlotOf(row)] = row
    <3>1. row \in Int /\ SlotOf(row) \in Slot
      BY <1>4, SlotsDiffer
    <3>2. CASE row = copy + 1
      BY <1>1, <1>4, <1>5, <3>1, <3>2, CopyStarts DEF TypeOK, Contents
    <3>3. CASE row \in 0 .. copy
      <4>1. SlotOf(row) # SlotOf(copy + 1)
        BY <1>4, <3>1, <3>3, Sizes, SlotsDiffer
      <4>2. lines[SlotOf(row)] = row
        BY <1>1, <1>2, <3>3 DEF RowsHeld
      <4> QED
        BY <1>1, <1>4, <1>5, <3>1, <4>1, <4>2, CopyStarts DEF TypeOK, Contents
    <3> QED
      BY <1>4, <3>2, <3>3
  <2> QED
    BY <2>1
<1>7. TypeOK'
  BY <1>1, <1>2, <1>3, <1>4, <1>5 DEF TypeOK, Contents, V_FRONT, V_DISPLAY, Row, Slot
<1>8. BeamInRow' /\ LinesCounted' /\ FrameWaits' /\ LineWaits' /\ CopyWaits' /\ Prefetching'
  BY <1>1, <1>2, <1>3, <1>4
     DEF BeamInRow, LinesCounted, FrameWaits, LineWaits, CopyWaits, Prefetching, V_DISPLAY
<1>9. pixel' = None
  BY <1>1, <1>2 DEF FrameWaits
<1>10. PixelFollows' /\ RowsHeld'
  BY <1>2, <1>6, <1>9 DEF PixelFollows, RowsHeld, SlotOf
<1> QED
  BY <1>3, <1>7, <1>8, <1>10 DEF IInv

\* The ring is full when the pixel channel starts.
LEMMA FramePrefetchedKeeps ==
  ASSUME IInv, FramePrefetched
  PROVE  IInv'
<1>1. /\ TypeOK /\ Queued /\ BeamInRow /\ LinesCounted /\ FrameWaits /\ LineWaits
      /\ CopyWaits /\ Prefetching /\ PixelFollows /\ RowsHeld
  BY DEF IInv
<1>2. /\ handler = "frame" /\ copy = PREFETCH_LINES - 1 /\ handler' = "none" /\ copy' = None
      /\ next_line_addr' = SlotOf(1) /\ pixel' = SlotOf(0)
      /\ UNCHANGED timing /\ UNCHANGED <<beam, irq, display_row, prefetch, lines>>
  BY DEF FramePrefetched
<1>3. /\ BeamWord' = BeamWord /\ BeamRow' = BeamRow /\ BeamPhase' = BeamPhase
      /\ Position' = Position /\ Raised' = Raised /\ Queued'
      /\ timing_row' = timing_row /\ timing_phase' = timing_phase /\ timing_fifo' = timing_fifo
  BY <1>1, <1>2, OthersMove
<1>4. SlotOf(0) \in Slot /\ SlotOf(1) \in Slot
  BY SlotsDiffer
<1>5. TypeOK'
  BY <1>1, <1>2, <1>3, <1>4 DEF TypeOK, V_FRONT, V_DISPLAY, Row, Slot
<1>6. /\ "frame" \notin irq /\ "line" \notin irq /\ display_row = 0 /\ prefetch = None
  BY <1>1, <1>2 DEF FrameWaits
<1>7. BeamInRow' /\ LinesCounted' /\ FrameWaits' /\ LineWaits' /\ CopyWaits' /\ Prefetching'
  BY <1>1, <1>2, <1>3, <1>6
     DEF BeamInRow, LinesCounted, FrameWaits, LineWaits, CopyWaits, Prefetching, V_DISPLAY
<1>8. RowDue' = 0
  <2>1. BeamRow > V_DISPLAY \/ BeamRow < V_BACK
    BY <1>1, <1>2, FrameWaitsInBlanking
  <2>2. ~ (0 < Position /\ Position <= HEIGHT) /\ ~ (V_BACK <= BeamRow /\ BeamRow < V_DISPLAY)
    BY <1>1, <2>1, Numbers, Sizes
  <2>3. beam' # "tail"
    BY <1>1, <1>2, <2>2 DEF BeamInRow
  <2> QED
    BY <1>3, <2>2, <2>3 DEF RowDue
<1>9. PixelFollows'
  BY <1>2, <1>6, <1>8, Sizes DEF PixelFollows, SlotOf
<1>10. RowsHeld'
  <2>1. ASSUME NEW row \in Row, row < display_row + PREFETCH_LINES
        PROVE  lines'[SlotOf(row)] = row
    <3>1. row \in 0 .. copy /\ SlotOf(row) \in Slot
      BY <1>2, <1>6, <2>1, Sizes, SlotsDiffer DEF Row
    <3> QED
      BY <1>1, <1>2, <3>1 DEF RowsHeld
  <2> QED
    BY <1>2, <2>1 DEF RowsHeld, SlotOf, Row
<1> QED
  BY <1>3, <1>5, <1>7, <1>9, <1>10 DEF IInv

LEMMA PrefetchDoneKeeps ==
  ASSUME IInv, PrefetchDone
  PROVE  IInv'
<1>1. /\ TypeOK /\ Queued /\ BeamInRow /\ LinesCounted /\ FrameWaits /\ LineWaits
      /\ CopyWaits /\ Prefetching /\ PixelFollows /\ RowsHeld
  BY DEF IInv
<1>2. /\ prefetch # None /\ prefetch' = None
      /\ UNCHANGED timing
      /\ UNCHANGED <<beam, irq, handler, copy, display_row, next_line_addr, pixel, lines>>
  BY DEF PrefetchDone
<1>3. /\ BeamWord' = BeamWord /\ BeamRow' = BeamRow /\ BeamPhase' = BeamPhase
      /\ Position' = Position /\ Raised' = Raised /\ SinceFrame' = SinceFrame /\ Queued'
      /\ timing_row' = timing_row /\ timing_phase' = timing_phase /\ timing_fifo' = timing_fifo
  BY <1>1, <1>2, OthersMove
<1>4. TypeOK'
  BY <1>1, <1>2, <1>3 DEF TypeOK, V_FRONT, V_DISPLAY, Row, Slot
<1>5. BeamInRow' /\ LinesCounted' /\ FrameWaits' /\ LineWaits' /\ CopyWaits' /\ Prefetching'
  BY <1>1, <1>2, <1>3
     DEF BeamInRow, LinesCounted, FrameWaits, LineWaits, CopyWaits, Prefetching, V_DISPLAY
<1>6. PixelFollows' /\ RowsHeld'
  BY <1>1, <1>2, <1>3 DEF PixelFollows, RowDue, RowsHeld, SlotOf, Row
<1> QED
  BY <1>3, <1>4, <1>5, <1>6 DEF IInv

\* Where the pixel channel is when it gets to the end of a line: no line
\* interrupt waits, so next_line_addr is of the line that is counted.
LEMMA AtEndOfLine ==
  ASSUME IInv, ChainLine
  PROVE  /\ irq = {} \/ (handler = "line" /\ "line" \notin irq /\ "frame" \notin irq)
         /\ display_row = Position + 1 /\ Position \in 0 .. HEIGHT - 1
         /\ V_BACK <= BeamRow /\ BeamRow < V_DISPLAY /\ BeamPhase = 3
<1>1. /\ TypeOK /\ BeamInRow /\ LinesCounted /\ FrameWaits /\ beam = "pixels" /\ pixel # None
      /\ Served /\ CopyInTime
  BY DEF IInv, ChainLine
<1>2. irq = {} \/ (handler = "line" /\ "line" \notin irq /\ "frame" \notin irq)
  BY <1>1 DEF Served, CopyInTime, FrameWaits, TypeOK
<1>3. V_BACK <= BeamRow /\ BeamRow < V_DISPLAY /\ BeamPhase = 3
  BY <1>1 DEF BeamInRow
<1>4. display_row = Raised
  BY <1>1, <1>2 DEF LinesCounted
<1> QED
  BY <1>1, <1>2, <1>3, <1>4, Numbers, Sizes

LEMMA ChainKeeps ==
  ASSUME IInv, ChainLine
  PROVE  IInv'
<1>1. /\ TypeOK /\ Queued /\ BeamInRow /\ LinesCounted /\ FrameWaits /\ LineWaits
      /\ CopyWaits /\ Prefetching /\ PixelFollows /\ RowsHeld
  BY DEF IInv
<1>2. /\ beam = "pixels" /\ pixel # None /\ pixel' = next_line_addr /\ beam' = "tail"
      /\ UNCHANGED timing
      /\ UNCHANGED <<irq, handler, copy, display_row, next_line_addr, prefetch, lines>>
  BY DEF ChainLine
<1>3. /\ BeamWord' = BeamWord /\ BeamRow' = BeamRow /\ BeamPhase' = BeamPhase
      /\ Position' = Position /\ Raised' = Raised /\ SinceFrame' = SinceFrame /\ Queued'
      /\ timing_row' = timing_row /\ timing_phase' = timing_phase /\ timing_fifo' = timing_fifo
  BY <1>1, <1>2, OthersMove
<1>4. /\ "line" \notin irq /\ "frame" \notin irq /\ handler # "frame"
      /\ display_row = Position + 1 /\ Position \in 0 .. HEIGHT - 1
      /\ V_BACK <= BeamRow /\ BeamRow < V_DISPLAY /\ BeamPhase = 3
  BY <1>1, <1>2, AtEndOfLine DEF FrameWaits
<1>5. TypeOK'
  BY <1>1, <1>2, <1>3 DEF TypeOK, V_FRONT, V_DISPLAY, Row, Slot
<1>6. BeamInRow' /\ LinesCounted' /\ FrameWaits' /\ LineWaits' /\ CopyWaits' /\ Prefetching'
  BY <1>1, <1>2, <1>3, <1>4
     DEF BeamInRow, LinesCounted, FrameWaits, LineWaits, CopyWaits, Prefetching, V_DISPLAY
<1>7. PixelFollows'
  <2>1. RowDue' = display_row + 1
    <3>1. RowDue' = Position + 2
      BY <1>2, <1>3 DEF RowDue
    <3> QED
      BY <1>4, <3>1
  <2>2. pixel' # None => display_row < HEIGHT /\ pixel' = SlotOf(display_row + 1)
    BY <1>1, <1>2 DEF PixelFollows
  <2>3. display_row < HEIGHT => display_row + 1 <= HEIGHT
    BY <1>4, Sizes
  <2> QED
    BY <1>1, <1>2, <2>1, <2>2, <2>3 DEF PixelFollows, SlotOf
<1>8. RowsHeld'
  BY <1>1, <1>2, <1>4 DEF RowsHeld, SlotOf, Row
<1> QED
  BY <1>3, <1>5, <1>6, <1>7, <1>8 DEF IInv

-----------------------------------------------------------------------------
\* Where a word stands that does something.
LEMMA WordPlaces ==
  /\ Instruction(BeamRow, BeamPhase) = "pixels"
       => BeamPhase = 2 /\ V_BACK <= BeamRow /\ BeamRow < V_DISPLAY
  /\ Instruction(BeamRow, BeamPhase) = "frame" => BeamPhase = 3 /\ BeamRow = V_DISPLAY
  /\ Instruction(BeamRow, BeamPhase) = "line"
       => BeamPhase = 3 /\ V_BACK - 1 <= BeamRow /\ BeamRow < V_DISPLAY
  /\ Instruction(BeamRow, BeamPhase) = "nop"
       => /\ ~ (BeamPhase = 2 /\ V_BACK <= BeamRow /\ BeamRow < V_DISPLAY)
          /\ BeamPhase = 3 => ~ (V_BACK - 1 <= BeamRow /\ BeamRow < V_DISPLAY) /\ BeamRow # V_DISPLAY
  /\ Instruction(BeamRow, BeamPhase) \in {"nop", "pixels", "line", "frame"}
BY DEF Instruction

\* A word is executed while an interrupt waits only when a handler runs, and the
\* queue is then too short to reach the next interrupt.
LEMMA WordWhileServed ==
  ASSUME IInv, ExecuteTimingWord
  PROVE  /\ irq = {} \/ (irq = {"line"} /\ handler = "line")
         /\ irq = {"line"} => BeamPhase < 3
         /\ Instruction(BeamRow, BeamPhase) = "frame" => irq = {} /\ handler = "none" /\ pixel = None
         /\ Instruction(BeamRow, BeamPhase) = "line" => irq = {} /\ handler # "frame"
<1>1. /\ TypeOK /\ Queued /\ BeamInRow /\ LinesCounted /\ FrameWaits /\ LineWaits
      /\ CopyWaits /\ PixelFollows
  BY DEF IInv
<1>2. Len(timing_fifo) > 0 /\ Served
  BY <1>1, ExecuteMoves DEF ExecuteTimingWord
<1>3. irq = {} \/ (irq = {"line"} /\ handler = "line")
  <2>1. CASE handler = "none"
    BY <1>2, <2>1 DEF Served
  <2>2. CASE handler # "none"
    <3>1. irq \subseteq {"line", "frame"} /\ "frame" \notin irq
      BY <1>1, <2>2 DEF TypeOK, FrameWaits
    <3>2. CASE "line" \in irq
      <4>1. handler = "line"
        BY <1>1, <2>2, <3>2 DEF TypeOK, FrameWaits
      <4> QED
        BY <3>1, <3>2, <4>1
    <3>3. CASE "line" \notin irq
      BY <3>1, <3>3
    <3> QED
      BY <3>2, <3>3
  <2> QED
    BY <2>1, <2>2
<1>4. ASSUME handler = "line"
      PROVE  /\ display_row <= HEIGHT - 3 /\ display_row > 0
             /\ 4 * BeamRow + BeamPhase + 1 < 4 * (V_BACK + display_row - 1) + 8
  <2>1. /\ copy = display_row + PREFETCH_LINES - 1 /\ copy < HEIGHT /\ display_row > 0
        /\ BeamWord + Len(timing_fifo) < 4 * (V_BACK + display_row - 1) + FIFO_WORDS
    BY <1>1, <1>4 DEF CopyWaits
  <2>2. /\ display_row \in Int /\ BeamWord = 4 * BeamRow + BeamPhase /\ BeamRow \in Int
        /\ BeamPhase \in Int /\ Len(timing_fifo) \in Int
    BY <1>1, Numbers, Sizes
  <2> QED
    BY <1>2, <2>1, <2>2, Sizes
<1>5. ASSUME irq = {"line"}
      PROVE  BeamPhase < 3
  <2>1. display_row = Raised - 1 /\ Raised > 0 /\ handler = "line"
    BY <1>1, <1>3, <1>5 DEF LinesCounted, LineWaits
  <2>2. /\ BeamRow = V_BACK + display_row /\ display_row \in Int /\ BeamPhase \in 0 .. 3
        /\ V_BACK \in Int
    BY <1>1, <2>1, Numbers, Sizes
  <2> QED
    BY <1>4, <2>1, <2>2
<1>6. ASSUME Instruction(BeamRow, BeamPhase) = "frame"
      PROVE  irq = {} /\ handler = "none" /\ pixel = None
  <2>1. BeamPhase = 3 /\ BeamRow = V_DISPLAY
    BY <1>6, WordPlaces
  <2>2. handler # "line"
    BY <1>1, <1>4, <2>1, Numbers, Sizes
  <2>3. handler # "frame"
    BY <1>1, <2>1, FrameWaitsInBlanking, Sizes
  <2>4. pixel = None
    <3>1. Position = HEIGHT /\ 0 < Position
      BY <1>1, <2>1, Numbers, Sizes
    <3>2. beam # "tail"
      BY <1>1, <2>1, Sizes DEF BeamInRow
    <3>3. RowDue = HEIGHT + 1
      BY <3>1, <3>2, Sizes DEF RowDue
    <3> QED
      BY <1>1, <3>3, Sizes DEF PixelFollows
  <2> QED
    BY <1>1, <1>3, <2>2, <2>3, <2>4 DEF TypeOK
<1>7. ASSUME Instruction(BeamRow, BeamPhase) = "line"
      PROVE  irq = {} /\ handler # "frame"
  <2>1. BeamPhase = 3 /\ V_BACK - 1 <= BeamRow /\ BeamRow < V_DISPLAY
    BY <1>7, WordPlaces
  <2>2. ASSUME handler = "frame" PROVE FALSE
    <3>1. BeamWord + 4 * (V_BLANK - 1) + Len(timing_fifo) < FIFO_WORDS
      BY <1>1, <2>1, <2>2, Numbers, Sizes DEF FrameWaits, SinceFrame
    <3> QED
      BY <1>1, <1>2, <2>1, <3>1, Numbers, Sizes
  <2> QED
    BY <1>3, <1>5, <2>1, <2>2
<1> QED
  BY <1>3, <1>5, <1>6, <1>7

LEMMA ExecuteKeeps ==
  ASSUME IInv, ExecuteTimingWord
  PROVE  IInv'
<1> DEFINE word == Instruction(BeamRow, BeamPhase)
<1>1. /\ TypeOK /\ Queued /\ BeamInRow /\ LinesCounted /\ FrameWaits /\ LineWaits
      /\ CopyWaits /\ Prefetching /\ PixelFollows /\ RowsHeld
  BY DEF IInv
<1>2. /\ Head(timing_fifo) = word
      /\ Len(timing_fifo) > 0 /\ Len(timing_fifo') = Len(timing_fifo) - 1
      /\ timing_fifo' \in Seq({"nop", "pixels", "line", "frame"})
      /\ BeamWord' = Wrapped(BeamWord + 1)
      /\ BeamPhase' = IF BeamPhase = 3 THEN 0 ELSE BeamPhase + 1
      /\ BeamRow' = IF BeamPhase < 3 THEN BeamRow
                    ELSE IF BeamRow = V_FRONT - 1 THEN 0 ELSE BeamRow + 1
      /\ Queued'
  BY <1>1, ExecuteMoves
<1>3. /\ beam = "pixels" => pixel = None
      /\ UNCHANGED <<timing_row, timing_phase, handler, copy, display_row,
                     next_line_addr, pixel, prefetch, lines>>
      /\ irq' = irq \cup ({word} \cap {"line", "frame"})
      /\ beam' = CASE word = "pixels" -> "pixels"
                   [] word \in {"line", "frame"} -> "porch"
                   [] OTHER -> beam
  BY <1>2 DEF ExecuteTimingWord
<1>4. /\ word = "pixels" => BeamPhase = 2 /\ V_BACK <= BeamRow /\ BeamRow < V_DISPLAY
      /\ word = "frame" => BeamPhase = 3 /\ BeamRow = V_DISPLAY
      /\ word = "line" => BeamPhase = 3 /\ V_BACK - 1 <= BeamRow /\ BeamRow < V_DISPLAY
      /\ word = "nop"
           => /\ ~ (BeamPhase = 2 /\ V_BACK <= BeamRow /\ BeamRow < V_DISPLAY)
              /\ BeamPhase = 3 => ~ (V_BACK - 1 <= BeamRow /\ BeamRow < V_DISPLAY) /\ BeamRow # V_DISPLAY
      /\ word \in {"nop", "pixels", "line", "frame"}
  BY WordPlaces
<1>5. /\ irq = {} \/ (irq = {"line"} /\ handler = "line")
      /\ irq = {"line"} => BeamPhase < 3
      /\ word = "frame" => irq = {} /\ handler = "none" /\ pixel = None
      /\ word = "line" => irq = {} /\ handler # "frame"
  BY WordWhileServed
<1> HIDE DEF word
<1>6. /\ word = "pixels" => beam' = "pixels" /\ irq' = irq
      /\ word = "nop" => beam' = beam /\ irq' = irq
      /\ word = "line" => beam' = "porch" /\ irq' = {"line"}
      /\ word = "frame" => beam' = "porch" /\ irq' = {"frame"}
  BY <1>3, <1>5
<1>7. /\ BeamRow' \in Int /\ Position' = BeamRow' - V_BACK
      /\ Raised' = IF V_BACK <= BeamRow' /\ BeamRow' <= V_DISPLAY THEN BeamRow' - V_BACK + 1 ELSE 0
      /\ V_BACK \in Int /\ V_DISPLAY \in Int /\ V_FRONT \in Int
  BY <1>1, <1>2, Numbers, Sizes DEF Position, Raised, V_DISPLAY
<1>8. TypeOK'
  <2>1. Len(timing_fifo') <= FIFO_WORDS
    BY <1>1, <1>2, Numbers, Sizes
  <2>2. irq' \subseteq {"line", "frame"} /\ beam' \in {"porch", "pixels", "tail"}
    BY <1>1, <1>4, <1>6 DEF TypeOK
  <2> QED
    BY <1>1, <1>2, <1>3, <2>1, <2>2 DEF TypeOK, V_FRONT, V_DISPLAY, Row, Slot
\* Its place, in numbers.
<1>9. /\ BeamRow \in Int /\ BeamPhase \in 0 .. 3 /\ Len(timing_fifo) \in Int
      /\ 0 <= BeamRow /\ BeamRow < V_FRONT /\ BeamWord = 4 * BeamRow + BeamPhase
      /\ Len(timing_fifo) <= FIFO_WORDS
      /\ Raised = IF V_BACK <= BeamRow /\ BeamRow <= V_DISPLAY THEN BeamRow - V_BACK + 1 ELSE 0
      /\ V_DISPLAY = HEIGHT + V_BACK /\ V_FRONT = V_DISPLAY + V_BLANK
      /\ V_BACK \in Int /\ V_BLANK \in Int /\ HEIGHT \in Int /\ 1 <= V_BACK /\ 1 <= V_BLANK
      /\ 3 <= HEIGHT /\ FIFO_WORDS \in Int
  BY <1>1, Numbers, Sizes
<1>10. BeamWord' = 4 * BeamRow' + BeamPhase'
  <2>1. /\ timing_row' \in 0 .. V_FRONT - 1 /\ timing_phase' \in 0 .. 3
        /\ Len(timing_fifo') \in 0 .. FIFO_WORDS
    BY <1>1, <1>2, <1>3, <1>9 DEF TypeOK
  <2> QED
    BY <2>1, BeamNext
<1>11. BeamInRow'
  <2>1. IF V_BACK <= BeamRow' /\ BeamRow' < V_DISPLAY /\ BeamPhase' = 3
        THEN beam' \in {"pixels", "tail"} ELSE beam' = "porch"
    <3>1. CASE BeamPhase = 3
      BY <1>1, <1>2, <1>4, <1>6, <1>9, <3>1 DEF BeamInRow
    <3>2. CASE BeamPhase < 3
      BY <1>1, <1>2, <1>4, <1>6, <1>9, <3>2 DEF BeamInRow
    <3> QED
      BY <1>9, <3>1, <3>2
  <2> QED
    BY <2>1 DEF BeamInRow, V_DISPLAY
<1>12. /\ word \in {"nop", "pixels", "frame"} => irq' \ {"frame"} = irq
       /\ word \in {"nop", "pixels"} => Raised' = Raised
       /\ word = "line" => Raised' = Raised + 1
  <2>1. word \in {"nop", "pixels"} => Raised' = Raised
    BY <1>2, <1>4, <1>7, <1>9
  <2>2. word = "line" => Raised' = Raised + 1
    BY <1>2, <1>4, <1>7, <1>9
  <2>3. word \in {"nop", "pixels", "frame"} => irq' \ {"frame"} = irq
    BY <1>5, <1>6
  <2> QED
    BY <2>1, <2>2, <2>3
<1>13. LinesCounted'
  <2>1. CASE word \in {"nop", "pixels"}
    BY <1>1, <1>3, <1>6, <1>12, <2>1 DEF LinesCounted
  <2>2. CASE word = "line"
    BY <1>1, <1>3, <1>5, <1>6, <1>9, <1>12, <2>2 DEF LinesCounted
  <2>3. CASE word = "frame"
    BY <1>6, <2>3 DEF LinesCounted
  <2> QED
    BY <1>4, <2>1, <2>2, <2>3
<1>14. FrameWaits'
  <2>1. SinceFrame' = IF BeamRow' > V_DISPLAY THEN BeamWord' - 4 * (V_DISPLAY + 1)
                      ELSE BeamWord' + 4 * (V_BLANK - 1)
    BY DEF SinceFrame, V_DISPLAY
  <2>2. CASE word = "frame"
    <3>1. SinceFrame' = 0
      BY <1>2, <1>4, <1>9, <1>10, <2>1, <2>2
    <3>2. irq' = {"frame"} /\ handler' = "none" /\ pixel' = None
      BY <1>3, <1>5, <1>6, <2>2
    <3>3. SinceFrame' + Len(timing_fifo') < FIFO_WORDS
      BY <1>2, <1>9, <3>1
    <3> QED
      BY <3>2, <3>3 DEF FrameWaits
  <2>3. CASE word # "frame"
    <3>1. "frame" \notin irq'
      BY <1>4, <1>5, <1>6, <2>3
    <3>2. ASSUME handler = "frame"
          PROVE  /\ "line" \notin irq' /\ pixel = None
                 /\ SinceFrame' + Len(timing_fifo') < FIFO_WORDS
      <4>1. /\ pixel = None /\ SinceFrame + Len(timing_fifo) < FIFO_WORDS
            /\ BeamRow > V_DISPLAY \/ BeamRow < V_BACK
        BY <1>1, <3>2, FrameWaitsInBlanking DEF FrameWaits
      <4>2. irq' = {}
        BY <1>4, <1>5, <1>6, <2>3, <3>2
      <4>3. SinceFrame = IF BeamRow > V_DISPLAY THEN BeamWord - 4 * (V_DISPLAY + 1)
                         ELSE BeamWord + 4 * (V_BLANK - 1)
        BY DEF SinceFrame
      <4>4. SinceFrame' = SinceFrame + 1 /\ SinceFrame \in Int
        BY <1>2, <1>9, <1>10, <2>1, <4>1, <4>3
      <4> QED
        BY <1>2, <1>9, <4>1, <4>2, <4>4
    <3> QED
      BY <1>1, <1>3, <3>1, <3>2 DEF FrameWaits
  <2> QED
    BY <2>2, <2>3
<1>15. LineWaits'
  <2>1. ASSUME "line" \in irq'
        PROVE  Raised' > 0 /\ beam' # "tail" /\ BeamPhase' + Len(timing_fifo') < FIFO_WORDS
    <3>1. CASE word = "line"
      BY <1>2, <1>4, <1>6, <1>9, <1>12, <3>1
    <3>2. CASE word # "line"
      <4>1. irq = {"line"} /\ word \in {"nop", "pixels"} /\ BeamPhase < 3
        BY <1>4, <1>5, <1>6, <2>1, <3>2
      <4>2. Raised > 0 /\ beam # "tail" /\ BeamPhase + Len(timing_fifo) < FIFO_WORDS
        BY <1>1, <4>1 DEF LineWaits
      <4> QED
        BY <1>2, <1>6, <1>9, <1>12, <4>1, <4>2
    <3> QED
      BY <3>1, <3>2
  <2> QED
    BY <2>1 DEF LineWaits
<1>16. CopyWaits'
  <2>1. ASSUME handler = "line"
        PROVE  BeamWord' + Len(timing_fifo') = BeamWord + Len(timing_fifo)
    <3>1. display_row \in Int /\ display_row <= HEIGHT - 3
      BY <1>1, <2>1, Numbers, Sizes DEF CopyWaits
    <3>2. BeamWord + Len(timing_fifo) < 4 * (V_BACK + display_row - 1) + FIFO_WORDS
      BY <1>1, <2>1 DEF CopyWaits
    <3>3. BeamWord + 1 < Words
      BY <1>2, <1>9, <3>1, <3>2, Sizes DEF Words
    <3>4. BeamWord' = BeamWord + 1
      BY <1>2, <1>9, <3>3 DEF Wrapped, Words
    <3> QED
      BY <1>2, <1>9, <3>4
  <2> QED
    BY <1>1, <1>3, <2>1 DEF CopyWaits
<1>17. Prefetching'
  BY <1>1, <1>3 DEF Prefetching
<1>18. ASSUME pixel # None
       PROVE  RowDue' = RowDue
  <2>1. beam # "pixels" /\ word # "frame"
    BY <1>3, <1>5, <1>18
  <2>2. /\ Position = BeamRow - V_BACK /\ Position \in Int /\ Position' \in Int
        /\ V_BACK <= BeamRow /\ BeamRow < V_DISPLAY /\ BeamPhase = 3 => beam = "tail"
        /\ ~ (V_BACK <= BeamRow /\ BeamRow < V_DISPLAY /\ BeamPhase = 3) => beam = "porch"
    BY <1>1, <1>7, <1>9, <2>1 DEF Position, BeamInRow
  <2>3. CASE BeamPhase < 3
    <3>1. Position' = Position /\ beam # "tail" /\ beam' # "tail"
      BY <1>2, <1>4, <1>6, <1>7, <1>9, <2>2, <2>3
    <3> QED
      BY <3>1 DEF RowDue
  <2>4. CASE BeamPhase = 3 /\ V_BACK <= BeamRow /\ BeamRow < V_DISPLAY
    <3>1. word = "line" /\ beam = "tail" /\ beam' = "porch"
      BY <1>4, <1>6, <2>1, <2>2, <2>4, <1>9
    <3>2. Position' = Position + 1 /\ 0 < Position' /\ Position' <= HEIGHT
      BY <1>2, <1>7, <1>9, <2>2, <2>4
    <3> QED
      BY <2>2, <3>1, <3>2 DEF RowDue
  <2>5. CASE BeamPhase = 3 /\ ~ (V_BACK <= BeamRow /\ BeamRow < V_DISPLAY)
    <3>1. beam = "porch" /\ beam' = "porch" /\ BeamRow # V_DISPLAY
      BY <1>4, <1>6, <1>9, <2>1, <2>2, <2>5
    <3>2. /\ ~ (0 < Position /\ Position <= HEIGHT)
          /\ ~ (0 < Position' /\ Position' <= HEIGHT)
      BY <1>2, <1>7, <1>9, <2>2, <2>5, <3>1
    <3> QED
      BY <3>1, <3>2 DEF RowDue
  <2> QED
    BY <1>9, <2>3, <2>4, <2>5
<1>19. PixelFollows'
  BY <1>1, <1>3, <1>18 DEF PixelFollows, SlotOf
<1>20. RowsHeld'
  BY <1>1, <1>3 DEF RowsHeld, SlotOf, Row
<1> QED
  BY <1>2, <1>8, <1>11, <1>13, <1>14, <1>15, <1>16, <1>17, <1>19, <1>20 DEF IInv

-----------------------------------------------------------------------------
LEMMA StepKeeps == IInv /\ [Next]_vars => IInv'
<1> SUFFICES ASSUME IInv, [Next]_vars PROVE IInv'
  OBVIOUS
<1>1. CASE UNCHANGED vars
  <2>1. /\ TypeOK /\ Queued /\ BeamInRow /\ LinesCounted /\ FrameWaits /\ LineWaits
        /\ CopyWaits /\ Prefetching /\ PixelFollows /\ RowsHeld
    BY DEF IInv
  <2>2. /\ UNCHANGED timing
        /\ UNCHANGED <<beam, irq, handler, copy, display_row, next_line_addr, pixel, prefetch, lines>>
    BY <1>1 DEF vars
  <2>3. /\ BeamWord' = BeamWord /\ BeamRow' = BeamRow /\ BeamPhase' = BeamPhase
        /\ Position' = Position /\ Raised' = Raised /\ SinceFrame' = SinceFrame /\ Queued'
        /\ timing_row' = timing_row /\ timing_phase' = timing_phase /\ timing_fifo' = timing_fifo
    BY <2>1, <2>2, OthersMove
  <2>4. TypeOK'
    BY <2>1, <2>2, <2>3 DEF TypeOK, V_FRONT, V_DISPLAY, Row, Slot
  <2>5. BeamInRow' /\ LinesCounted' /\ FrameWaits' /\ LineWaits' /\ CopyWaits' /\ Prefetching'
    BY <2>1, <2>2, <2>3
       DEF BeamInRow, LinesCounted, FrameWaits, LineWaits, CopyWaits, Prefetching, V_DISPLAY
  <2>6. PixelFollows' /\ RowsHeld'
    BY <2>1, <2>2, <2>3 DEF PixelFollows, RowDue, RowsHeld, SlotOf, Row
  <2> QED
    BY <2>3, <2>4, <2>5, <2>6 DEF IInv
<1>2. CASE Next
  BY <1>2, PutKeeps, ExecuteKeeps, ChainKeeps, PrefetchDoneKeeps, StartLineKeeps,
     LineCopiedKeeps, StartFrameKeeps, FrameLineKeeps, FramePrefetchedKeeps
  DEF Next, LineIsr
<1> QED
  BY <1>1, <1>2

\* While the pixel channel runs display_row is of the row the channel shows, or,
\* when a line interrupt still waits, of the row in front of it.
LEMMA CountedIsShown ==
  ASSUME IInv, pixel # None, display_row > 0, Position > 0 \/ beam = "tail"
  PROVE  /\ RowDue \in Int /\ RowDue <= HEIGHT /\ pixel = SlotOf(RowDue)
         /\ display_row <= RowDue /\ RowDue <= display_row + 1
         /\ handler # "frame"
<1>1. /\ TypeOK /\ BeamInRow /\ LinesCounted /\ FrameWaits /\ LineWaits /\ PixelFollows
  BY DEF IInv
<1>2. handler # "frame" /\ "frame" \notin irq
  BY <1>1 DEF FrameWaits
<1>3. RowDue <= HEIGHT /\ pixel = SlotOf(RowDue)
  BY <1>1 DEF PixelFollows
<1>4. display_row = (IF "line" \in irq THEN Raised - 1 ELSE Raised) /\ Raised > 0
  BY <1>1, <1>2, Numbers DEF LinesCounted, LineWaits
<1>5. Raised = Position + 1 /\ Position \in Int /\ Position <= HEIGHT
  BY <1>1, <1>4, Numbers, Sizes
<1>6. CASE beam = "tail"
  <2>1. "line" \notin irq /\ RowDue = Position + 2
    BY <1>1, <1>6 DEF LineWaits, RowDue
  <2> QED
    BY <1>2, <1>3, <1>4, <1>5, <2>1
<1>7. CASE beam # "tail"
  <2>1. RowDue = Position + 1
    BY <1>5, <1>7 DEF RowDue
  <2> QED
    BY <1>2, <1>3, <1>4, <1>5, <2>1
<1> QED
  BY <1>6, <1>7

\* The inductive invariant of the timing words, the interrupts and the channels.
THEOREM Invariance == Spec => []IInv
  BY InitHolds, StepKeeps, PTL DEF Spec

\* Types, for a panel and a ring of any size: timing_isr never overfills the
\* queue and arm_prefetch_for_row never leaves prefetched_lines.
THEOREM TypeCorrect == Spec => []TypeOK
<1>1. IInv => TypeOK
  BY DEF IInv
<1> QED
  BY <1>1, Invariance, PTL

\* start_frame_transfer resets the channels while no row is displayed, however
\* long its copies take.
THEOREM FrameIsHandledInBlanking == Spec => []FrameHandledInBlanking
<1>1. IInv => FrameHandledInBlanking
  <2> SUFFICES ASSUME IInv, handler = "frame"
               PROVE  BeamRow >= V_DISPLAY \/ BeamRow < V_BACK
    BY DEF FrameHandledInBlanking
  <2>1. TypeOK /\ FrameWaits
    BY DEF IInv
  <2>2. BeamRow > V_DISPLAY \/ BeamRow < V_BACK
    BY <2>1, FrameWaitsInBlanking
  <2> QED
    BY <2>1, <2>2, Numbers, Sizes
<1> QED
  BY <1>1, Invariance, PTL

\* The line that arm_prefetch_for_row copies, or has copied by the channel, is a
\* ring less one or two lines in front of the one the pixel channel reads, from
\* the second line of the panel on and as long as no copy lasts two lines.
THEOREM PrefetchIsOffScan == Spec => []PrefetchKeepsOffScan
<1>1. IInv => PrefetchKeepsOffScan
  <2> SUFFICES ASSUME IInv, NEW row \in {prefetch, copy}, row # None
               PROVE  SlotOf(row) # Scanned
    BY DEF PrefetchKeepsOffScan
  <2>1. TypeOK /\ FrameWaits /\ CopyWaits /\ Prefetching
    BY DEF IInv
  <2>2. row \in Int /\ SlotOf(row) \in Slot /\ SlotOf(row) # None
    <3>1. row \in Row
      BY <2>1 DEF TypeOK
    <3>2. row \in Int /\ None \notin Slot
      BY <3>1, Sizes DEF Row, Slot, None
    <3> QED
      BY <3>2, SlotsDiffer
  <2>3. CASE Scanned = None
    BY <2>2, <2>3
  <2>4. CASE Scanned # None
    <3>1. Scanned = pixel /\ pixel # None /\ (Position > 0 \/ beam = "tail")
      BY <2>4 DEF Scanned
    <3>2. row = display_row + PREFETCH_LINES - 1 /\ display_row > 0
      <4>1. handler # "frame"
        BY <2>1, <3>1 DEF FrameWaits
      <4>2. handler \in {"none", "line", "frame"}
        BY <2>1 DEF TypeOK
      <4> QED
        BY <2>1, <4>1, <4>2 DEF CopyWaits, Prefetching
    <3>3. /\ RowDue \in Int /\ pixel = SlotOf(RowDue)
          /\ display_row <= RowDue /\ RowDue <= display_row + 1
      BY <3>1, <3>2, CountedIsShown
    <3>4. RowDue < row /\ row < RowDue + PREFETCH_LINES
      BY <2>1, <3>2, <3>3, Numbers, Sizes
    <3> QED
      BY <2>2, <3>1, <3>3, <3>4, SlotsDiffer
  <2> QED
    BY <2>3, <2>4
<1> QED
  BY <1>1, Invariance, PTL

\* The row that start_line_transfer lets the pixel channel show is in every line
\* but the first and the last one number too high, whatever is late.
THEOREM LinesShowNextRow == Spec => []EachLineShowsNextRow
<1>1. IInv => EachLineShowsNextRow
  <2> SUFFICES ASSUME IInv, beam = "pixels", 0 < Position, Position < HEIGHT - 1, pixel # None
               PROVE  lines[pixel] = Position + 1
    BY DEF EachLineShowsNextRow
  <2>1. TypeOK /\ LinesCounted /\ FrameWaits /\ PixelFollows /\ RowsHeld
    BY DEF IInv
  <2>2. Position \in Int /\ Raised = Position + 1
    BY <2>1, Numbers, Sizes
  <2>3. RowDue = Position + 1 /\ pixel = SlotOf(RowDue)
    BY <2>1, <2>2, Sizes DEF RowDue, PixelFollows
  <2>4. display_row = IF "line" \in irq THEN Raised - 1 ELSE Raised
    BY <2>1 DEF FrameWaits, LinesCounted
  <2>5. /\ Position + 1 \in Row /\ display_row <= Position + 1
        /\ Position + 1 < display_row + PREFETCH_LINES
    BY <2>2, <2>4, Sizes DEF Row
  <2> QED
    BY <2>1, <2>3, <2>5 DEF RowsHeld
<1> QED
  BY <1>1, Invariance, PTL

\* When the line channel restarts the pixel channel, the slot of next_line_addr
\* holds the row after that of the slot that has just been read.
THEOREM RowsAreInOrder == Spec => RowsFollowEachOther
<1>1. ASSUME IInv, [Next]_vars
      PROVE  [ChainLine /\ Position > 0 /\ display_row < HEIGHT - 1
                => lines[pixel'] = lines[pixel] + 1]_vars
  <2> SUFFICES ASSUME ChainLine, Position > 0, display_row < HEIGHT - 1
               PROVE  lines[pixel'] = lines[pixel] + 1
    OBVIOUS
  <2>1. TypeOK /\ PixelFollows /\ RowsHeld
    BY <1>1 DEF IInv
  <2>2. beam = "pixels" /\ pixel # None /\ pixel' = next_line_addr
    BY DEF ChainLine
  <2>3. display_row = Position + 1 /\ Position \in 0 .. HEIGHT - 1
    BY <1>1, AtEndOfLine
  <2>4. display_row \in Row /\ display_row + 1 \in Row
    BY <2>3, Sizes DEF Row
  <2>5. pixel = SlotOf(display_row)
    <3>1. RowDue = Position + 1
      BY <2>2, <2>3, Sizes DEF RowDue
    <3> QED
      BY <2>1, <2>2, <2>3, <3>1 DEF PixelFollows
  <2>6. pixel' = SlotOf(display_row + 1)
    BY <2>1, <2>2, <2>3, Sizes DEF PixelFollows
  <2>7. lines[pixel] = display_row /\ lines[pixel'] = display_row + 1
    BY <2>1, <2>2, <2>3, <2>4, <2>5, <2>6, Sizes DEF RowsHeld
  <2> QED
    BY <2>3, <2>7, Sizes
<1> QED
  BY <1>1, Invariance, PTL DEF Spec, RowsFollowEachOther
=============================================================================
