------------------------------- MODULE Device -------------------------------
(***************************************************************************)
(* The device from power-on: pico-std/src/startup.rs and main of           *)
(* iroh-echo-full/src/iroh_echo.rs, composed of the fault record, the      *)
(* secret's store and the echo server.  A hard fault, a reset and a loss   *)
(* of power may come at any point; what is not in flash, or in the one     *)
(* record, starts anew then.                                               *)
(***************************************************************************)
EXTENDS FaultRecord, SecretStore, EchoServer

CONSTANT MaxAttempts  \* of presto_wifi_connect

VARIABLES
  phase,     \* what the startup has come to
  attempt    \* of presto_wifi_connect

vars == <<phase, attempt, faultVars, secretVars, echoVars>>

Boot == phase = "early" /\ attempt = 1

Init == Boot /\ FaultInit /\ SecretInit /\ EchoInit

\* The processor is not in the fault handler.
Alive == handled = "none"

Enter(p) == phase' = p /\ UNCHANGED attempt

-----------------------------------------------------------------------------
\* __wrap_main: the saved fault is reported before the scheduler starts.
ReportFault ==
  /\ phase = "early" /\ BeginReport
  /\ Enter("report")
  /\ UNCHANGED <<secretVars, echoVars>>

NoFaultSaved ==
  /\ phase = "early" /\ Alive /\ ~ magic
  /\ Enter("main")
  /\ UNCHANGED <<faultVars, secretVars, echoVars>>

FaultReported ==
  /\ phase = "report" /\ PrintReport
  /\ Enter("main")
  /\ UNCHANGED <<secretVars, echoVars>>

\* main: first the secret, before core 1 and the network run, ...
FindSecret ==
  /\ phase = "main" /\ Alive
  /\ LoadSecret \/ GenerateSecret \/ EraseSector \/ ProgramPage \/ VerifyPage
  /\ UNCHANGED <<phase, attempt, faultVars, echoVars>>

\* ... then the display, ...
StartDisplay ==
  /\ phase = "main" /\ Alive /\ store = "done"
  /\ Enter("wifi")
  /\ UNCHANGED <<faultVars, secretVars, echoVars>>

\* ... the network, in a few attempts, and the clock when relays are used.
Connected ==
  /\ phase = "wifi" /\ Alive
  /\ Enter("time") \/ Enter("serve")
  /\ UNCHANGED <<faultVars, secretVars, echoVars>>

AttemptFailed ==
  /\ phase = "wifi" /\ Alive /\ attempt < MaxAttempts
  /\ attempt' = attempt + 1
  /\ UNCHANGED <<phase, faultVars, secretVars, echoVars>>

\* main panics for good when the display, the radio's driver or the last
\* attempt fails, or the clock stays unset.
GiveUp ==
  /\ Alive
  /\ \/ phase = "main" /\ store = "done"
     \/ phase = "wifi" /\ attempt \in {1, MaxAttempts}
     \/ phase = "time"
  /\ Enter("panicked")
  /\ UNCHANGED <<faultVars, secretVars, echoVars>>

ClockSet ==
  /\ phase = "time" /\ Alive
  /\ Enter("serve")
  /\ UNCHANGED <<faultVars, secretVars, echoVars>>

Serve ==
  /\ phase = "serve" /\ Alive
  /\ EchoStep
  /\ UNCHANGED <<phase, attempt, faultVars, secretVars>>

-----------------------------------------------------------------------------
\* What stops the processor.

EchoReset ==
  /\ conn' = [c \in Conn |-> "none"] /\ lit' = 0 /\ ui' = <<>> /\ shown' = 0
  /\ addr' \in Addr /\ unseen' = TRUE /\ sending' = NoAddr /\ addr_rx' = <<>>
  /\ addr_shown' \in Addr /\ led_state' = addr_shown'

Faults ==
  \/ /\ \E f \in Fault : HardFault(f)
     /\ EchoReset
     /\ UNCHANGED <<phase, attempt, secretVars>>
  \/ (ClearMagic \/ CommitRecord) /\ UNCHANGED <<phase, attempt, secretVars, echoVars>>

\* The watchdog's reset after a fault, or any other, or a loss of power.
Restart ==
  /\ phase' = "early" /\ attempt' = 1
  /\ FaultReset \/ FaultPowerLoss
  /\ SecretReset /\ EchoReset

Next ==
  \/ ReportFault \/ NoFaultSaved \/ FaultReported
  \/ FindSecret \/ StartDisplay \/ Connected \/ AttemptFailed \/ GiveUp \/ ClockSet
  \/ Serve \/ Faults \/ Restart

Spec == Init /\ [][Next]_vars
=============================================================================
