---------------------------- MODULE FaultRecord ----------------------------
(***************************************************************************)
(* The record of a hard fault that pico-std/c/src/shim.c keeps over a      *)
(* restart, in memory that no startup code clears.  A processor that has   *)
(* lost its power finds anything there, but not the magic word.            *)
(***************************************************************************)
EXTENDS Naturals

CONSTANTS Fault, NoFault

Torn == "torn"   \* the fields of no fault, or of more than one

ASSUME FaultAssumption == {NoFault, Torn} \cap Fault = {} /\ NoFault # Torn

VARIABLES
  magic, fields,   \* saved_fault
  handling,        \* the fault hardfault_report is recording
  handled,         \* how far it is: "none", "clear", "fields" or "reboot"
  fault,           \* the copy presto_report_saved_fault will print
  printed          \* how often each fault has been printed

faultVars == <<magic, fields, handling, handled, fault, printed>>

FaultInit ==
  /\ magic = FALSE /\ fields = Torn
  /\ handling = NoFault /\ handled = "none"
  /\ fault = NoFault
  /\ printed = [f \in Fault \cup {Torn} |-> 0]

\* A fault is taken, and told apart from those that were or will be printed.
HardFault(f) ==
  /\ handled = "none"
  /\ printed[f] = 0 /\ f # fields /\ f # fault
  /\ handling' = f /\ handled' = "clear"
  /\ UNCHANGED <<magic, fields, fault, printed>>

\* Variant: the old record stays valid while it is overwritten.
KeepMagic ==
  /\ handled = "clear"
  /\ fields' = Torn
  /\ handled' = "fields"
  /\ UNCHANGED <<magic, handling, fault, printed>>

\* hardfault_report: first the magic goes, ...
ClearMagic ==
  /\ handled = "clear"
  /\ magic' = FALSE /\ fields' = Torn
  /\ handled' = "fields"
  /\ UNCHANGED <<handling, fault, printed>>

\* ... then the fields are written, then the magic.
CommitRecord ==
  /\ handled = "fields"
  /\ fields' = handling /\ magic' = TRUE
  /\ handled' = "reboot"
  /\ UNCHANGED <<handling, fault, printed>>

\* presto_report_saved_fault: the record is copied and cleared, two seconds
\* before the copy is printed.
BeginReport ==
  /\ handled = "none" /\ magic
  /\ fault' = fields /\ magic' = FALSE
  /\ UNCHANGED <<fields, handling, handled, printed>>

PrintReport ==
  /\ handled = "none" /\ fault # NoFault
  /\ printed' = [printed EXCEPT ![fault] = @ + 1]
  /\ fault' = NoFault
  /\ UNCHANGED <<magic, fields, handling, handled>>

\* A reset keeps the memory, and a loss of power does not.
FaultReset ==
  /\ handling' = NoFault /\ handled' = "none" /\ fault' = NoFault
  /\ UNCHANGED <<magic, fields, printed>>

FaultPowerLoss ==
  /\ handling' = NoFault /\ handled' = "none" /\ fault' = NoFault
  /\ magic' = FALSE /\ fields' = Torn
  /\ UNCHANGED printed

(***************************************************************************)
(* What is reported after a restart is one fault that happened, whole, and *)
(* it is reported once, with faults, resets and power losses at any moment *)
(* of the recording and the report.                                        *)
(***************************************************************************)
ReportsAreReal == printed[Torn] = 0 /\ \A f \in Fault : printed[f] <= 1
=============================================================================
