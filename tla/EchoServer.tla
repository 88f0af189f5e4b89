----------------------------- MODULE EchoServer -----------------------------
(***************************************************************************)
(* What the echo application of iroh-echo-full/src/iroh_echo.rs shows of   *)
(* its connections and its address: the connection tasks with their two    *)
(* guards, the forwarder of address changes, and the loop that receives    *)
(* from both channels and draws.                                           *)
(*                                                                         *)
(* All of them are tasks of one thread, and a step is what runs between    *)
(* two awaits.  An address is told apart by what the LEDs show of it.      *)
(***************************************************************************)
EXTENDS Integers, Sequences, SequencesExt, FiniteSets

CONSTANTS
  Conn,       \* connection tasks that may exist at once
  Addr,       \* addresses of the endpoint
  NoAddr,
  AddrSlots,  \* capacity of the address channel
  MaxUi       \* bound: no connection is accepted over so many queued events

ASSUME EchoAssumption == IsFiniteSet(Conn) /\ NoAddr \notin Addr

VARIABLES
  conn,         \* each task: "none", "spawned", "started" or "established"
  lit,          \* Outputs::active_connections
  ui,           \* the unbounded channel of UiEvents
  shown,        \* DisplayState::active_connections
  addr,         \* the endpoint's address
  unseen,       \* the address stream has something to yield
  sending,      \* what the forwarder has taken from it
  addr_rx,      \* the channel of address updates
  addr_shown, led_state

echoVars == <<conn, lit, ui, shown, addr, unseen, sending, addr_rx, addr_shown, led_state>>
conns == <<conn, lit, ui, shown>>
addrs == <<addr, unseen, sending, addr_rx, addr_shown, led_state>>

\* The endpoint is bound, and the loop about to start.  The stream yields the
\* address there is first, which may not be the one that was drawn.
EchoInit ==
  /\ conn = [c \in Conn |-> "none"] /\ lit = 0 /\ ui = <<>> /\ shown = 0
  /\ addr \in Addr /\ unseen = TRUE /\ sending = NoAddr /\ addr_rx = <<>>
  /\ addr_shown \in Addr /\ led_state = addr_shown

\* The loop accepts, and spawns a task.
Accept(c) ==
  /\ conn[c] = "none" /\ Len(ui) < MaxUi
  /\ conn' = [conn EXCEPT ![c] = "spawned"]
  /\ UNCHANGED <<lit, ui, shown, addrs>>

\* The task runs for the first time and has both its guards.
StartConnection(c) ==
  /\ conn[c] = "spawned"
  /\ conn' = [conn EXCEPT ![c] = "started"]
  /\ lit' = lit + 1
  /\ UNCHANGED <<ui, shown, addrs>>

\* The handshake is done: mark_established.
Establish(c) ==
  /\ conn[c] = "started"
  /\ conn' = [conn EXCEPT ![c] = "established"]
  /\ ui' = Append(ui, "ConnectionEstablished")
  /\ UNCHANGED <<lit, shown, addrs>>

\* Variant: the end is announced as that of an established connection.
EndedAlways(c) == "EndedEstablished"

EndedEvent(c) == IF conn[c] = "established" THEN "EndedEstablished" ELSE "EndedEarly"

\* The task ends, by itself or with an error, and drops its guards.
EndConnection(c) ==
  /\ conn[c] \in {"started", "established"}
  /\ conn' = [conn EXCEPT ![c] = "none"]
  /\ ui' = Append(ui, EndedEvent(c))
  /\ lit' = IF lit > 0 THEN lit - 1 ELSE 0
  /\ UNCHANGED <<shown, addrs>>

\* apply_ui_event.
HandleUiEvent ==
  /\ ui # <<>>
  /\ ui' = Tail(ui)
  /\ shown' = CASE Head(ui) = "ConnectionEstablished" -> shown + 1
                [] Head(ui) = "EndedEstablished" -> IF shown > 0 THEN shown - 1 ELSE 0
                [] OTHER -> shown
  /\ UNCHANGED <<conn, lit, addrs>>

\* The endpoint's address changes; changes between two looks are one.
ChangeAddr(a) ==
  /\ a # addr
  /\ addr' = a /\ unseen' = TRUE
  /\ UNCHANGED <<sending, addr_rx, addr_shown, led_state, conns>>

\* The forwarder takes what the stream yields, and waits for room for it.
TakeAddr ==
  /\ unseen /\ sending = NoAddr
  /\ sending' = addr /\ unseen' = FALSE
  /\ UNCHANGED <<addr, addr_rx, addr_shown, led_state, conns>>

SendAddr ==
  /\ sending # NoAddr /\ Len(addr_rx) < AddrSlots
  /\ addr_rx' = Append(addr_rx, sending)
  /\ sending' = NoAddr
  /\ UNCHANGED <<addr, unseen, addr_shown, led_state, conns>>

HandleAddrUpdate ==
  /\ addr_rx # <<>>
  /\ addr_rx' = Tail(addr_rx)
  /\ addr_shown' = Head(addr_rx) /\ led_state' = Head(addr_rx)
  /\ UNCHANGED <<addr, unseen, sending, conns>>

EchoStep ==
  \/ \E c \in Conn : Accept(c) \/ StartConnection(c) \/ Establish(c) \/ EndConnection(c)
  \/ HandleUiEvent \/ TakeAddr \/ SendAddr \/ HandleAddrUpdate
  \/ \E a \in Addr : ChangeAddr(a)

Queued(event) == Cardinality({i \in DOMAIN ui : ui[i] = event})

(***************************************************************************)
(* Whatever order connections start, succeed, fail and end in, the count   *)
(* on the display comes out right when the events under way have been      *)
(* handled, the LEDs know every task that runs, and no change of address   *)
(* is left undrawn when both its channels are empty.                       *)
(***************************************************************************)
DisplayFollowsEvents ==
  /\ shown + Queued("ConnectionEstablished") - Queued("EndedEstablished")
       = Cardinality({c \in Conn : conn[c] = "established"})
  /\ lit = Cardinality({c \in Conn : conn[c] \in {"started", "established"}})
  /\ ~ unseen => addr = IF sending # NoAddr THEN sending ELSE Last(<<addr_shown>> \o addr_rx)
  /\ led_state = addr_shown
=============================================================================
