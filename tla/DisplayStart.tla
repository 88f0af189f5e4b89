---------------------------- MODULE DisplayStart ----------------------------
(***************************************************************************)
(* Starting the display: Display::start of pico-std/src/lib.rs, and        *)
(* presto_display_start_framebuffer with start_display of                  *)
(* pico-std/c/src/display.c, built for a framebuffer in PSRAM.             *)
(*                                                                         *)
(* Any task may call Display::start.  The starting task waits for core 1   *)
(* in a loop that other tasks of its priority, or higher, interrupt, and   *)
(* nothing but display_status tells them that a start is under way.        *)
(* Core 1 scans the buffer dma_framebuffer points to from its launch on.   *)
(***************************************************************************)
EXTENDS Integers

CONSTANTS Caller, Buffer, NoBuffer

VARIABLES
  pc,               \* where each caller is
  buf,              \* the buffer each caller has allocated in this call
  result,           \* what its start_display returns
  allocated,        \* buffers that are allocated
  dma_framebuffer,
  display_status,   \* 0 never started, -1 starting, -2 no PSRAM, 1 running
  core1,            \* what core 1 does: "off", "launched" or "scanning"
  psram             \* the PSRAM was found

vars == <<pc, buf, result, allocated, dma_framebuffer, display_status, core1, psram>>

Init ==
  /\ pc = [c \in Caller |-> "idle"]
  /\ buf = [c \in Caller |-> NoBuffer]
  /\ result = [c \in Caller |-> 0]
  /\ allocated = {}
  /\ dma_framebuffer = NoBuffer
  /\ display_status = 0
  /\ core1 = "off"
  /\ psram \in BOOLEAN

Goto(c, p) == pc' = [pc EXCEPT ![c] = p]

\* vec![0u16; PIXELS], which passes the range checks of lib.rs and display.c.
Alloc(c) ==
  /\ pc[c] = "idle"
  /\ \E b \in Buffer \ allocated :
       /\ allocated' = allocated \cup {b}
       /\ buf' = [buf EXCEPT ![c] = b]
  /\ Goto(c, "set")
  /\ UNCHANGED <<result, dma_framebuffer, display_status, core1, psram>>

\* presto_display_start_framebuffer: the pointer is set before the status is
\* looked at.
SetFramebuffer(c) ==
  /\ pc[c] = "set"
  /\ dma_framebuffer' = buf[c]
  /\ Goto(c, "test")
  /\ UNCHANGED <<buf, result, allocated, display_status, core1, psram>>

\* start_display, in the order of its accesses to display_status.
Outcome(s) == IF s > 0 THEN 0 ELSE s

TestStatus(c) ==
  /\ pc[c] = "test"
  /\ IF display_status = 0
     THEN Goto(c, "claim") /\ UNCHANGED result
     ELSE Goto(c, "done") /\ result' = [result EXCEPT ![c] = Outcome(display_status)]
  /\ UNCHANGED <<buf, allocated, dma_framebuffer, display_status, core1, psram>>

Claim(c) ==
  /\ pc[c] = "claim"
  /\ display_status' = -1
  /\ Goto(c, "launch")
  /\ UNCHANGED <<buf, result, allocated, dma_framebuffer, core1, psram>>

NoPsram(c) ==
  /\ pc[c] = "launch" /\ ~ psram
  /\ display_status' = -2
  /\ result' = [result EXCEPT ![c] = -2]
  /\ Goto(c, "done")
  /\ UNCHANGED <<buf, allocated, dma_framebuffer, core1, psram>>

LaunchCore1(c) ==
  /\ pc[c] = "launch" /\ psram
  /\ core1' = "launched"
  /\ Goto(c, "wait")
  /\ UNCHANGED <<buf, result, allocated, dma_framebuffer, display_status, psram>>

AwaitCore1(c) ==
  /\ pc[c] = "wait" /\ display_status # -1
  /\ result' = [result EXCEPT ![c] = Outcome(display_status)]
  /\ Goto(c, "done")
  /\ UNCHANGED <<buf, allocated, dma_framebuffer, display_status, core1, psram>>

\* display_core1, once panel, DMA and interrupts are set up.
Core1Running ==
  /\ core1 = "launched"
  /\ core1' = "scanning"
  /\ display_status' = 1
  /\ UNCHANGED <<pc, buf, result, allocated, dma_framebuffer, psram>>

\* Back in Display::start: a buffer is kept for ever, or reclaimed.
Finish(c) ==
  /\ pc[c] = "done"
  /\ allocated' = IF result[c] = 0 THEN allocated ELSE allocated \ {buf[c]}
  /\ buf' = [buf EXCEPT ![c] = NoBuffer]
  /\ result' = [result EXCEPT ![c] = 0]
  /\ Goto(c, "idle")
  /\ UNCHANGED <<dma_framebuffer, display_status, core1, psram>>

Next ==
  \/ Core1Running
  \/ \E c \in Caller :
       \/ Alloc(c) \/ SetFramebuffer(c) \/ TestStatus(c) \/ Claim(c)
       \/ NoPsram(c) \/ LaunchCore1(c) \/ AwaitCore1(c) \/ Finish(c)

Spec == Init /\ [][Next]_vars

(***************************************************************************)
(* "The display never started, so reclaiming the allocation is safe.":     *)
(* core 1 never scans a buffer that Display::start has given back.         *)
(***************************************************************************)
ScannedBufferIsAllocated == core1 = "scanning" => dma_framebuffer \in allocated
=============================================================================
