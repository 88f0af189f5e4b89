------------------------------ MODULE EventFd ------------------------------
(***************************************************************************)
(* The event descriptors and the poll loop of pico-std/c/src/platform.c,   *)
(* with the tasks that use them as mio does: a poller opens a descriptor,  *)
(* polls it together with its sockets, reads it when it is ready, and      *)
(* closes it at last; anyone it has given a waker to writes to it.  As     *)
(* wakers borrow the descriptor, no write is under way when it is closed.  *)
(*                                                                         *)
(* Each access to the fields of a slot is an atomic operation of the       *)
(* compiler and a step.  A poller's sockets are one flag: some socket is   *)
(* ready.  Time is counted in units of which a quantum has Quantum.        *)
(***************************************************************************)
EXTENDS Integers

CONSTANTS
  Task, Poller,    \* the tasks, and those that poll; the others only hold
  EVENTFD_COUNT,
  Quantum,
  Timeouts,        \* the time-outs passed to poll, -1 for none
  MaxUnread        \* writes between two reads: far fewer than 2^64

ASSUME PollAssumption ==
  /\ Poller \subseteq Task
  /\ {EVENTFD_COUNT, Quantum, MaxUnread} \subseteq Nat \ {0}
  /\ Timeouts \subseteq Nat \cup {-1}

Index == 0 .. EVENTFD_COUNT - 1
NoFd == -1

VARIABLES
  active, value,   \* the fields of eventfds
  pc,              \* where each task is
  fd,              \* the index it tries, or has
  unread,          \* what was written to its descriptor since it last read
  timeout, elapsed,
  socket           \* a socket of the poller is ready

vars == <<active, value, pc, fd, unread, timeout, elapsed, socket>>

InPoll == {"look", "wait"}

Init ==
  /\ active = [i \in Index |-> 0]
  /\ value = [i \in Index |-> 0]
  /\ pc = [t \in Task |-> "closed"]
  /\ fd = [t \in Task |-> NoFd]
  /\ unread = [t \in Task |-> 0]
  /\ timeout = [t \in Task |-> -1] /\ elapsed = [t \in Task |-> 0]
  /\ socket = [t \in Task |-> FALSE]

Goto(t, p) == pc' = [pc EXCEPT ![t] = p]

polling == <<timeout, elapsed, socket>>

-----------------------------------------------------------------------------
\* eventfd: slot after slot is tried with a compare and exchange.
CallEventfd(t) ==
  /\ pc[t] = "closed"
  /\ fd' = [fd EXCEPT ![t] = 0]
  /\ Goto(t, "claim")
  /\ UNCHANGED <<active, value, unread, polling>>

ClaimSlot(t) ==
  /\ pc[t] = "claim" /\ active[fd[t]] = 0
  /\ active' = [active EXCEPT ![fd[t]] = 1]
  /\ Goto(t, "set")
  /\ UNCHANGED <<value, fd, unread, polling>>

NextSlot(t) ==
  /\ pc[t] = "claim" /\ active[fd[t]] = 1 /\ fd[t] < EVENTFD_COUNT - 1
  /\ fd' = [fd EXCEPT ![t] = @ + 1]
  /\ UNCHANGED <<active, value, pc, unread, polling>>

\* EMFILE.
NoSlot(t) ==
  /\ pc[t] = "claim" /\ active[fd[t]] = 1 /\ fd[t] = EVENTFD_COUNT - 1
  /\ fd' = [fd EXCEPT ![t] = NoFd]
  /\ Goto(t, "closed")
  /\ UNCHANGED <<active, value, unread, polling>>

SetInitial(t) ==
  /\ pc[t] = "set"
  /\ \E initial_value \in {0, 1} :
       /\ value' = [value EXCEPT ![fd[t]] = initial_value]
       /\ unread' = [unread EXCEPT ![t] = initial_value]
  /\ Goto(t, "open")
  /\ UNCHANGED <<active, fd, polling>>

-----------------------------------------------------------------------------
\* write, by anyone who has a waker, to a task's open descriptor.
Write(t) ==
  /\ pc[t] \in InPoll \cup {"open", "read"} /\ unread[t] < MaxUnread
  /\ value' = [value EXCEPT ![fd[t]] = @ + 1]
  /\ unread' = [unread EXCEPT ![t] = @ + 1]
  /\ UNCHANGED <<active, pc, fd, polling>>

\* Variant: the value is read and left.
ReadKeeps(t) ==
  /\ pc[t] = "read"
  /\ Goto(t, "open")
  /\ UNCHANGED <<active, value, fd, unread, polling>>

\* read, when poll has said so: the value is exchanged for 0.
Read(t) ==
  /\ pc[t] = "read"
  /\ value' = [value EXCEPT ![fd[t]] = 0]
  /\ unread' = [unread EXCEPT ![t] = 0]
  /\ Goto(t, "open")
  /\ UNCHANGED <<active, fd, polling>>

\* Variant: the slot is given back before its value is cleared.
CloseFreesFirst(t) ==
  \/ /\ pc[t] = "open"
     /\ active' = [active EXCEPT ![fd[t]] = 0]
     /\ Goto(t, "free")
     /\ UNCHANGED <<value, fd, unread, polling>>
  \/ /\ pc[t] = "free"
     /\ value' = [value EXCEPT ![fd[t]] = 0]
     /\ fd' = [fd EXCEPT ![t] = NoFd]
     /\ Goto(t, "closed")
     /\ UNCHANGED <<active, unread, polling>>

\* close: value first, then active.
Close(t) ==
  \/ /\ pc[t] = "open"
     /\ value' = [value EXCEPT ![fd[t]] = 0]
     /\ Goto(t, "free")
     /\ UNCHANGED <<active, fd, unread, polling>>
  \/ /\ pc[t] = "free"
     /\ active' = [active EXCEPT ![fd[t]] = 0]
     /\ fd' = [fd EXCEPT ![t] = NoFd]
     /\ Goto(t, "closed")
     /\ UNCHANGED <<value, unread, polling>>

-----------------------------------------------------------------------------
\* poll.

CallPoll(t, ms) ==
  /\ t \in Poller /\ pc[t] = "open"
  /\ timeout' = [timeout EXCEPT ![t] = ms]
  /\ elapsed' = [elapsed EXCEPT ![t] = 0]
  /\ Goto(t, "look")
  /\ UNCHANGED <<active, value, fd, unread, socket>>

\* The descriptor is ready: poll returns without a look at the sockets.
LookReady(t) ==
  /\ pc[t] = "look" /\ value[fd[t]] # 0
  /\ Goto(t, "read")
  /\ UNCHANGED <<active, value, fd, unread, polling>>

\* It is not; a poll that must not wait returns, again without the sockets.
LookNotReady(t) ==
  /\ pc[t] = "look" /\ value[fd[t]] = 0
  /\ Goto(t, IF timeout[t] = 0 THEN "open" ELSE "wait")
  /\ UNCHANGED <<active, value, fd, unread, polling>>

\* Variant: a full quantum, whatever is left.
WaitQuantum(t) == Quantum

WaitTime(t) ==
  IF timeout[t] < 0 \/ timeout[t] - elapsed[t] > Quantum THEN Quantum
  ELSE timeout[t] - elapsed[t]

\* lwip_poll reports a socket, which the poller deals with.
WaitReady(t) ==
  /\ pc[t] = "wait" /\ socket[t]
  /\ socket' = [socket EXCEPT ![t] = FALSE]
  /\ Goto(t, "open")
  /\ UNCHANGED <<active, value, fd, unread, timeout, elapsed>>

\* Variant: the descriptor is not looked at again.
WaitOnly(t) == "wait"

AfterWait(t) == "look"

\* lwip_poll has waited, in vain; the last wait ends the poll.
WaitOver(t) ==
  /\ pc[t] = "wait" /\ ~ socket[t]
  /\ elapsed' = [elapsed EXCEPT ![t] = IF timeout[t] < 0 THEN @ ELSE @ + WaitTime(t)]
  /\ Goto(t, IF timeout[t] >= 0 /\ elapsed'[t] >= timeout[t] THEN "open" ELSE AfterWait(t))
  /\ UNCHANGED <<active, value, fd, unread, timeout, socket>>

\* lwip_poll fails, and so does poll.
WaitFails(t) ==
  /\ pc[t] = "wait"
  /\ Goto(t, "open")
  /\ UNCHANGED <<active, value, fd, unread, polling>>

\* Something arrives for the poller's sockets.
SocketReady(t) ==
  /\ t \in Poller /\ ~ socket[t]
  /\ socket' = [socket EXCEPT ![t] = TRUE]
  /\ UNCHANGED <<active, value, pc, fd, unread, timeout, elapsed>>

-----------------------------------------------------------------------------
PollStep(t) == LookReady(t) \/ LookNotReady(t) \/ WaitReady(t) \/ WaitOver(t)

Next == \E t \in Task :
  \/ CallEventfd(t) \/ ClaimSlot(t) \/ NextSlot(t) \/ NoSlot(t) \/ SetInitial(t)
  \/ Write(t) \/ Read(t) \/ Close(t)
  \/ (\E ms \in Timeouts : CallPoll(t, ms))
  \/ PollStep(t) \/ WaitFails(t) \/ SocketReady(t)

Spec == Init /\ [][Next]_vars

\* Tasks run and time passes.  A poller with an open descriptor goes on
\* polling, now and then with nothing else to do; those who wake it pause, and
\* lwip_poll reports at last a socket that is ready.
PollWhenIdle(t) == \E ms \in Timeouts \ {0} : CallPoll(t, ms)

FairSpec ==
  /\ Spec
  /\ \A t \in Poller :
       /\ WF_vars(PollStep(t)) /\ WF_vars(Read(t)) /\ WF_vars(PollWhenIdle(t))
       /\ SF_vars(PollWhenIdle(t) /\ unread[t] = 0)
       /\ SF_vars(LookNotReady(t) /\ timeout[t] # 0)
       /\ SF_vars(WaitReady(t))

-----------------------------------------------------------------------------
\* Every variable keeps its type, and no poll waits longer than it was told.
TypeOK ==
  /\ active \in [Index -> {0, 1}] /\ value \in [Index -> 0 .. MaxUnread]
  /\ pc \in [Task -> InPoll \cup {"closed", "claim", "set", "open", "read", "free"}]
  /\ fd \in [Task -> Index \cup {NoFd}]
  /\ unread \in [Task -> 0 .. MaxUnread]
  /\ timeout \in [Task -> Timeouts \cup {-1}] /\ elapsed \in [Task -> Nat]
  /\ \A t \in Task : elapsed[t] = 0 \/ elapsed[t] <= timeout[t]
  /\ socket \in [Task -> BOOLEAN]

(***************************************************************************)
(* A descriptor counts what was written to it since it was opened or read, *)
(* and nothing that its slot's last user, or another that opens one at the *)
(* same time, has done: no wake-up is lost or taken from another task.     *)
(***************************************************************************)
CountsOwnWrites ==
  \A t \in Task :
    pc[t] \in InPoll \cup {"open", "read"} => value[fd[t]] = unread[t]

(***************************************************************************)
(* "Synthetic eventfds are checked between short lwIP waits, which is      *)
(* sufficient to wake a current-thread Tokio runtime": a write ends a      *)
(* poll that is under way, at whatever point of it the write comes.        *)
(***************************************************************************)
WriteEndsPoll == \A t \in Poller : pc[t] \in InPoll /\ unread[t] > 0 ~> pc[t] \notin InPoll

(***************************************************************************)
(* Wake-ups do not hide the sockets for ever, although a poll that finds   *)
(* the descriptor ready, or may not wait, leaves them out.                 *)
(***************************************************************************)
SocketIsReported ==
  \A t \in Poller : socket[t] ~> ~ socket[t] \/ pc[t] \in {"closed", "claim", "set", "free"}
=============================================================================
