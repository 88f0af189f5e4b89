------------------------------ MODULE MutexSpec ------------------------------
(***************************************************************************)
(* What a mutex promises: the calls that returned success and the unlocks  *)
(* that followed leave it with one task at most, and only a mutex nobody   *)
(* holds is destroyed.  A recursive mutex is held more than once.          *)
(***************************************************************************)
EXTENDS Naturals

CONSTANT Task

VARIABLES
  held,   \* how many times each task holds the mutex
  alive   \* it has not been destroyed

Init == held = [t \in Task |-> 0] /\ alive = TRUE

Others(t) == Task \ {t}

Lock(t) ==
  /\ alive /\ \A u \in Others(t) : held[u] = 0
  /\ held' = [held EXCEPT ![t] = held[t] + 1]
  /\ UNCHANGED alive

Unlock(t) ==
  /\ alive /\ held[t] > 0
  /\ held' = [held EXCEPT ![t] = held[t] - 1]
  /\ UNCHANGED alive

Destroy ==
  /\ \A t \in Task : held[t] = 0
  /\ alive' = FALSE
  /\ UNCHANGED held

Create ==
  /\ alive' = TRUE
  /\ UNCHANGED held

Next == Destroy \/ Create \/ \E t \in Task : Lock(t) \/ Unlock(t)

Spec == Init /\ [][Next]_<<held, alive>>
=============================================================================
