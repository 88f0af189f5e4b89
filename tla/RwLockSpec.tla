----------------------------- MODULE RwLockSpec -----------------------------
(***************************************************************************)
(* What a reader-writer lock promises its users: a task is granted a read  *)
(* lock while no one writes, perhaps several times, and the write lock     *)
(* while no one holds anything.                                            *)
(***************************************************************************)
EXTENDS Naturals

CONSTANT Task

VARIABLES hold,     \* how many read locks each task holds
          writing   \* the tasks that hold the write lock

Init == hold = [t \in Task |-> 0] /\ writing = {}

AcquireRead(t) ==
  /\ writing = {}
  /\ hold' = [hold EXCEPT ![t] = @ + 1]
  /\ UNCHANGED writing

AcquireWrite(t) ==
  /\ writing = {} /\ \A u \in Task : hold[u] = 0
  /\ writing' = {t}
  /\ UNCHANGED hold

ReleaseRead(t) ==
  /\ hold[t] > 0
  /\ hold' = [hold EXCEPT ![t] = @ - 1]
  /\ UNCHANGED writing

ReleaseWrite(t) ==
  /\ t \in writing
  /\ writing' = writing \ {t}
  /\ UNCHANGED hold

Next == \E t \in Task :
  AcquireRead(t) \/ AcquireWrite(t) \/ ReleaseRead(t) \/ ReleaseWrite(t)

Spec == Init /\ [][Next]_<<hold, writing>>
=============================================================================
