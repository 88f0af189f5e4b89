------------------------------ MODULE CondVar ------------------------------
(***************************************************************************)
(* Condition variables of pico-std/c/esp-idf/src/pthread_cond_var.c and    *)
(* the tasks that use one with a mutex and a predicate.                    *)
(*                                                                         *)
(* The waiter list is only read or written under cond->lock, and no        *)
(* section under it blocks: each is one atomic step.  The waiter's record, *)
(* its semaphore included, lives on the waiter's stack until the waiter    *)
(* has taken itself off the list.  A semaphore counts to 1 at most.        *)
(*                                                                         *)
(* Every waiter uses the variable as it is meant to be used: it tests the  *)
(* predicate `ready' with the mutex held, in a loop around the wait.  A    *)
(* setter makes it true with the mutex held and notifies afterwards; some  *)
(* task may also notify at any time, for no reason.                        *)
(***************************************************************************)
EXTENDS Naturals, Sequences, SequencesExt

CONSTANTS Waiter, Setter, NoTask

Task == Waiter \cup Setter

ASSUME TasksAreDistinct == Waiter \cap Setter = {} /\ NoTask \notin Task

VARIABLES
  mutex,        \* holder of the mutex the waiters pass to the wait
  waiter_list,  \* cond->waiter_list, first to last
  sem,          \* count of each waiter's semaphore
  pc,           \* where each task is
  alive,        \* the condition variable has not been destroyed
  ready         \* the users' predicate

vars == <<mutex, waiter_list, sem, pc, alive, ready>>

\* From TAILQ_INSERT_TAIL to TAILQ_REMOVE.
Queued == {"unlock", "asleep", "leave"}

PC == Queued \cup {"out", "lock", "enqueue", "relock", "notify"}

Init ==
  /\ mutex = NoTask
  /\ waiter_list = <<>>
  /\ sem = [t \in Waiter |-> 0]
  /\ pc = [t \in Task |-> "out"]
  /\ alive = TRUE
  /\ ready = FALSE

Goto(t, p) == pc' = [pc EXCEPT ![t] = p]

-----------------------------------------------------------------------------
\* The users of the variable.

\* A waiter or a setter goes for the mutex.
Enter(t) ==
  /\ pc[t] = "out" /\ alive
  /\ Goto(t, "lock")
  /\ UNCHANGED <<mutex, waiter_list, sem, alive, ready>>

\* The predicate holds: the waiter perhaps consumes it, and leaves.
Proceed(t) ==
  /\ t \in Waiter /\ pc[t] \in {"lock", "relock"} /\ mutex = NoTask
  /\ ready /\ ready' \in BOOLEAN
  /\ Goto(t, "out")
  /\ UNCHANGED <<mutex, waiter_list, sem, alive>>

\* It does not: the waiter waits, or has waited long enough.
Wait(t) ==
  /\ t \in Waiter /\ pc[t] \in {"lock", "relock"} /\ mutex = NoTask
  /\ ~ ready
  /\ mutex' = t /\ Goto(t, "enqueue")
  /\ UNCHANGED <<waiter_list, sem, alive, ready>>

GiveUp(t) ==
  /\ t \in Waiter /\ pc[t] = "relock" /\ mutex = NoTask
  /\ Goto(t, "out")
  /\ UNCHANGED <<mutex, waiter_list, sem, alive, ready>>

\* The setter's section under the mutex.
Set(t) ==
  /\ t \in Setter /\ pc[t] = "lock" /\ mutex = NoTask
  /\ ready' = TRUE
  /\ Goto(t, "notify")
  /\ UNCHANGED <<mutex, waiter_list, sem, alive>>

-----------------------------------------------------------------------------
\* pthread_cond_timedwait, in the order of its steps.

\* Variant: the mutex is released before the waiter is on the list.
EnqueueLate(t) ==
  /\ pc[t] = "enqueue"
  /\ IF mutex = t
     THEN mutex' = NoTask /\ UNCHANGED <<waiter_list, pc>>
     ELSE waiter_list' = Append(waiter_list, t) /\ Goto(t, "asleep") /\ UNCHANGED mutex
  /\ UNCHANGED <<sem, alive, ready>>

\* TAILQ_INSERT_TAIL, with a semaphore whose first take blocks.
Enqueue(t) ==
  /\ pc[t] = "enqueue"
  /\ waiter_list' = Append(waiter_list, t)
  /\ sem' = [sem EXCEPT ![t] = 0]
  /\ Goto(t, "unlock")
  /\ UNCHANGED <<mutex, alive, ready>>

\* The deadline has passed already: ETIMEDOUT, the mutex never released by
\* the call; its user releases it.
PastDeadline(t) ==
  /\ pc[t] = "enqueue"
  /\ mutex' = NoTask
  /\ Goto(t, "out")
  /\ UNCHANGED <<waiter_list, sem, alive, ready>>

\* Variant: the mutex is not released.
KeepMutex(t) ==
  /\ pc[t] = "unlock"
  /\ Goto(t, "asleep")
  /\ UNCHANGED <<mutex, waiter_list, sem, alive, ready>>

UnlockMutex(t) ==
  /\ pc[t] = "unlock"
  /\ mutex' = NoTask
  /\ Goto(t, "asleep")
  /\ UNCHANGED <<waiter_list, sem, alive, ready>>

\* xSemaphoreTake succeeds.
Woken(t) ==
  /\ pc[t] = "asleep" /\ sem[t] = 1
  /\ sem' = [sem EXCEPT ![t] = 0]
  /\ Goto(t, "leave")
  /\ UNCHANGED <<mutex, waiter_list, alive, ready>>

\* xSemaphoreTake runs out of time; a give may still come before Leave.
TimedOut(t) ==
  /\ pc[t] = "asleep" /\ sem[t] = 0
  /\ Goto(t, "leave")
  /\ UNCHANGED <<mutex, waiter_list, sem, alive, ready>>

\* Variant: the record leaves the stack and stays on the list.
LeaveListed(t) ==
  /\ pc[t] = "leave"
  /\ sem' = [sem EXCEPT ![t] = 0]
  /\ Goto(t, "relock")
  /\ UNCHANGED <<mutex, waiter_list, alive, ready>>

\* TAILQ_REMOVE, then vSemaphoreDelete and the call for the mutex.
Leave(t) ==
  /\ pc[t] = "leave"
  /\ \E i \in DOMAIN waiter_list :
       waiter_list[i] = t /\ waiter_list' = RemoveAt(waiter_list, i)
  /\ sem' = [sem EXCEPT ![t] = 0]
  /\ Goto(t, "relock")
  /\ UNCHANGED <<mutex, alive, ready>>

-----------------------------------------------------------------------------
\* What pthread_cond_signal gives: the first waiter stays first until it has
\* removed itself, so a signal that follows close on another is absorbed.
SignalFirst(w) == IF w = <<>> THEN {} ELSE {Head(w)}

\* What pthread_cond_broadcast gives: every waiter on the list.
BroadcastAll(w) == ToSet(w)

\* Variant: a semaphore without the limit of one.
GiveUncapped(S) == sem' = [u \in Waiter |-> IF u \in S THEN sem[u] + 1 ELSE sem[u]]

Give(S) == sem' = [u \in Waiter |-> IF u \in S THEN 1 ELSE sem[u]]

\* The setter broadcasts after it has released the mutex.
Notify(t) ==
  /\ pc[t] = "notify"
  /\ Give(BroadcastAll(waiter_list))
  /\ Goto(t, "out")
  /\ UNCHANGED <<mutex, waiter_list, alive, ready>>

\* Anyone else's notification, with or without a cause.
NotifyAtWill(t) ==
  /\ pc[t] = "out" /\ alive
  /\ \/ Give(SignalFirst(waiter_list))
     \/ Give(BroadcastAll(waiter_list))
  /\ UNCHANGED <<mutex, waiter_list, pc, alive, ready>>

-----------------------------------------------------------------------------
\* Its users may destroy the variable when none of them is about to use it;
\* those that still wait on it are the code's to notice.
NotAboutToUse == \A u \in Task : pc[u] \in {"out", "asleep", "leave"}

\* pthread_cond_destroy; EBUSY, while there are waiters, changes nothing.
Destroy(t) ==
  /\ pc[t] = "out" /\ alive /\ NotAboutToUse
  /\ waiter_list = <<>>
  /\ alive' = FALSE
  /\ UNCHANGED <<mutex, waiter_list, sem, pc, ready>>

\* pthread_cond_init; a static variable too gets here before its first use.
CondInit(t) ==
  /\ pc[t] = "out" /\ ~ alive
  /\ alive' = TRUE
  /\ waiter_list' = <<>>
  /\ UNCHANGED <<mutex, sem, pc, ready>>

-----------------------------------------------------------------------------
\* What a task does of itself; the rest is its users' choice.
Continue(t) ==
  \/ Proceed(t) \/ Wait(t) \/ Set(t) \/ Notify(t)
  \/ Enqueue(t) \/ UnlockMutex(t) \/ Woken(t) \/ Leave(t)

Next == \E t \in Task :
  \/ Enter(t) \/ GiveUp(t) \/ PastDeadline(t) \/ TimedOut(t)
  \/ NotifyAtWill(t) \/ Destroy(t) \/ CondInit(t)
  \/ Continue(t)

Spec == Init /\ [][Next]_vars

\* The scheduler runs every ready task, and a mutex that keeps being released
\* is eventually obtained.
FairSpec == Spec /\ \A t \in Task : SF_vars(Continue(t))

-----------------------------------------------------------------------------
\* Every variable keeps its type.
TypeOK ==
  /\ mutex \in Waiter \cup {NoTask}
  /\ waiter_list \in Seq(Waiter)
  /\ sem \in [Waiter -> {0, 1}]
  /\ pc \in [Task -> PC]
  /\ alive \in BOOLEAN /\ ready \in BOOLEAN

(***************************************************************************)
(* The list holds each task between its TAILQ_INSERT_TAIL and its          *)
(* TAILQ_REMOVE, once, and no other: no notification gives a semaphore     *)
(* whose stack frame is gone, and a destroyed variable has no waiter.      *)
(***************************************************************************)
ListHoldsLiveWaiters ==
  /\ ToSet(waiter_list) = {t \in Waiter : pc[t] \in Queued}
  /\ \A i, j \in DOMAIN waiter_list : i # j => waiter_list[i] # waiter_list[j]
  /\ ~ alive => \A t \in Waiter : pc[t] \notin Queued

(***************************************************************************)
(* No missed wake-up: once the predicate holds and its setter has made its *)
(* broadcast, no task sleeps without a wake-up of its own, whatever else   *)
(* was signalled, timed out or left meanwhile.  It rests on the waiter     *)
(* being on the list before it releases the mutex.                         *)
(***************************************************************************)
NoMissedNotify ==
  ready /\ (\A s \in Setter : pc[s] # "notify") =>
    \A t \in Waiter : pc[t] = "asleep" => sem[t] = 1

\* A notified waiter gets back to its caller with the mutex.
NotifiedReturns ==
  \A t \in Waiter :
    (pc[t] = "asleep" /\ sem[t] = 1) ~> pc[t] \in {"out", "enqueue"}
=============================================================================
