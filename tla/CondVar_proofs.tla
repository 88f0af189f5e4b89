---------------------------- MODULE CondVar_proofs ----------------------------
(***************************************************************************)
(* Proofs about CondVar, for any sets of waiters and setters: types, what  *)
(* is on the waiter list, and that no wake-up is missed.  The last rests   *)
(* on the mutex: from its test of the predicate to its place on the list   *)
(* a waiter holds it, so the predicate cannot become true unseen.          *)
(***************************************************************************)
EXTENDS CondVar, SequenceTheorems, TLAPS

\* A task on its way into the wait holds the mutex, which no other task does,
\* and the predicate is false as the task has seen it.
WaitsWithMutex ==
  /\ \A t \in Waiter : pc[t] \in {"enqueue", "unlock"} => mutex = t /\ ~ ready
  /\ \A t \in Setter : pc[t] \in {"out", "lock", "notify"}

\* Nobody is about to use a variable that has been destroyed.
DeadIsUnused == ~ alive => \A t \in Task : pc[t] = "out"

\* The list holds the tasks that are in the wait, each of them once.
Listed(w) ==
  /\ ToSet(w) = {t \in Waiter : pc[t] \in Queued}
  /\ \A i, j \in DOMAIN w : i # j => w[i] # w[j]

IInv ==
  /\ TypeOK /\ WaitsWithMutex /\ DeadIsUnused
  /\ Listed(waiter_list) /\ NoMissedNotify

-----------------------------------------------------------------------------
\* The elements behind the removed one move up by one place.
LEMMA RemoveAtShifts ==
  ASSUME NEW S, NEW w \in Seq(S), NEW i \in DOMAIN w
  PROVE  LET r == RemoveAt(w, i)
         IN  /\ r \in Seq(S) /\ Len(r) = Len(w) - 1
             /\ \A j \in 1 .. Len(r) : r[j] = w[IF j < i THEN j ELSE j + 1]
<1> DEFINE r == RemoveAt(w, i)
           a == SubSeq(w, 1, i - 1)
           b == SubSeq(w, i + 1, Len(w))
<1>1. Len(w) \in Nat /\ DOMAIN w = 1 .. Len(w) /\ \A j \in 1 .. Len(w) : w[j] \in S
  BY LenProperties, ElementOfSeq
<1>2. i \in 1 .. Len(w)
  BY <1>1
<1>3. /\ a \in Seq(S) /\ Len(a) = i - 1
      /\ \A j \in 1 .. i - 1 : a[j] = w[j]
  BY <1>1, <1>2, SubSeqProperties
<1>4. /\ b \in Seq(S) /\ Len(b) = Len(w) - i
      /\ \A j \in 1 .. Len(w) - i : b[j] = w[i + j]
  BY <1>1, <1>2, SubSeqProperties
<1>5. r = a \o b
  BY DEF RemoveAt
<1> HIDE DEF a, b, r
<1>6. /\ r \in Seq(S) /\ Len(r) = Len(w) - 1
      /\ \A j \in 1 .. Len(r) : r[j] = w[IF j < i THEN j ELSE j + 1]
  <2>1. /\ r \in Seq(S) /\ Len(r) = Len(a) + Len(b)
        /\ \A j \in 1 .. Len(a) + Len(b) :
             r[j] = IF j <= Len(a) THEN a[j] ELSE b[j - Len(a)]
    BY <1>3, <1>4, <1>5, ConcatProperties
  <2>2. Len(r) = Len(w) - 1
    BY <1>1, <1>2, <1>3, <1>4, <2>1
  <2>3. ASSUME NEW j \in 1 .. Len(r)
        PROVE  r[j] = w[IF j < i THEN j ELSE j + 1]
    <3>1. CASE j < i
      BY <1>1, <1>2, <1>3, <1>4, <2>1, <2>2, <3>1
    <3>2. CASE ~ (j < i)
      <4>1. j - Len(a) \in 1 .. Len(w) - i /\ ~ (j <= Len(a))
        BY <1>1, <1>2, <1>3, <2>2, <3>2
      <4>2. r[j] = b[j - Len(a)] /\ b[j - Len(a)] = w[i + (j - Len(a))]
        BY <1>1, <1>2, <1>4, <2>1, <2>2, <4>1
      <4>3. i + (j - Len(a)) = j + 1
        BY <1>1, <1>2, <1>3, <2>2
      <4> QED
        BY <3>2, <4>2, <4>3
    <3> QED
      BY <3>1, <3>2
  <2> QED
    BY <2>1, <2>2, <2>3
<1> QED
  BY <1>6 DEF r

\* What TAILQ_REMOVE leaves of a list without duplicates.
LEMMA RemoveAtLeavesRest ==
  ASSUME NEW S, NEW w \in Seq(S), NEW i \in DOMAIN w,
         \A j, k \in DOMAIN w : j # k => w[j] # w[k]
  PROVE  LET r == RemoveAt(w, i)
         IN  /\ r \in Seq(S)
             /\ ToSet(r) = ToSet(w) \ {w[i]}
             /\ \A j, k \in DOMAIN r : j # k => r[j] # r[k]
<1> DEFINE r == RemoveAt(w, i)
<1> HIDE DEF r
<1>1. /\ r \in Seq(S) /\ Len(r) = Len(w) - 1
      /\ \A j \in 1 .. Len(r) : r[j] = w[IF j < i THEN j ELSE j + 1]
  BY RemoveAtShifts DEF r
<1>2. DOMAIN r = 1 .. Len(r)
  OBVIOUS
<1>3. ToSet(r) = ToSet(w) \ {w[i]}
  <2>1. ASSUME NEW j \in DOMAIN r
        PROVE  \E k \in DOMAIN w : k # i /\ r[j] = w[k]
    BY <1>1
  <2>2. ASSUME NEW k \in DOMAIN w, k # i
        PROVE  \E j \in DOMAIN r : r[j] = w[k]
    <3>1. CASE k < i
      BY <1>1, <3>1
    <3>2. CASE k > i
      <4>1. k - 1 \in DOMAIN r /\ ~ (k - 1 < i) /\ k - 1 + 1 = k
        BY <1>1, <3>2
      <4> QED
        BY <1>1, <4>1
    <3> QED
      BY <2>2, <3>1, <3>2
  <2> QED
    BY <2>1, <2>2 DEF ToSet
<1>4. ASSUME NEW j \in DOMAIN r, NEW k \in DOMAIN r, j # k
      PROVE  r[j] # r[k]
  <2> DEFINE f(n) == IF n < i THEN n ELSE n + 1
  <2>1. f(j) \in DOMAIN w /\ f(k) \in DOMAIN w /\ f(j) # f(k)
    BY <1>1, <1>4
  <2>2. r[j] = w[f(j)] /\ r[k] = w[f(k)]
    BY <1>1, <1>2
  <2> HIDE DEF f
  <2> QED
    BY <2>1, <2>2
<1> QED
  BY <1>1, <1>3, <1>4 DEF r
-----------------------------------------------------------------------------
LEMMA EmptyIsListed ==
  ToSet(<<>>) = {} /\ \A i, j \in DOMAIN <<>> : i # j => <<>>[i] # <<>>[j]
  BY DEF ToSet

\* A give raises the counts of those it is for.
LEMMA GiveRaises ==
  ASSUME TypeOK, NEW S, Give(S)
  PROVE  /\ sem' \in [Waiter -> {0, 1}]
         /\ \A u \in Waiter : sem'[u] = IF u \in S THEN 1 ELSE sem[u]
  BY DEF Give, TypeOK

LEMMA Starts == Init => IInv
<1> SUFFICES ASSUME Init PROVE IInv
  OBVIOUS
<1>1. TypeOK
  BY EmptySeq DEF Init, TypeOK, PC
<1>2. WaitsWithMutex /\ DeadIsUnused /\ NoMissedNotify
  BY DEF Init, Task, WaitsWithMutex, DeadIsUnused, NoMissedNotify
<1>3. Listed(waiter_list)
  BY EmptyIsListed DEF Init, Task, Listed, Queued
<1> QED
  BY <1>1, <1>2, <1>3 DEF IInv

\* The call for the mutex.
LEMMA EnterKeeps ==
  ASSUME IInv, NEW t \in Task, Enter(t)
  PROVE  IInv'
<1> USE TasksAreDistinct DEF IInv, Enter, Goto
<1>1. TypeOK'
  BY DEF TypeOK, PC
<1>2. WaitsWithMutex' /\ DeadIsUnused'
  BY DEF WaitsWithMutex, DeadIsUnused
<1>3. Listed(waiter_list)'
  BY DEF Listed, Queued
<1>4. NoMissedNotify'
  BY DEF NoMissedNotify
<1> QED
  BY <1>1, <1>2, <1>3, <1>4

\* The predicate, perhaps, becomes false.
LEMMA ProceedKeeps ==
  ASSUME IInv, NEW t \in Task, Proceed(t)
  PROVE  IInv'
<1> USE TasksAreDistinct DEF IInv, Proceed, Goto
<1>1. TypeOK'
  BY DEF TypeOK, PC
<1>2. WaitsWithMutex' /\ DeadIsUnused'
  BY DEF WaitsWithMutex, DeadIsUnused
<1>3. Listed(waiter_list)'
  BY DEF Listed, Queued
<1>4. NoMissedNotify'
  BY DEF NoMissedNotify
<1> QED
  BY <1>1, <1>2, <1>3, <1>4

\* The waiter finds the predicate false.
LEMMA WaitKeeps ==
  ASSUME IInv, NEW t \in Task, Wait(t)
  PROVE  IInv'
<1> USE TasksAreDistinct DEF IInv, Wait, Goto
<1>1. TypeOK'
  BY DEF TypeOK, PC
<1>2. WaitsWithMutex' /\ DeadIsUnused'
  BY DEF WaitsWithMutex, DeadIsUnused, Task
<1>3. Listed(waiter_list)'
  BY DEF Listed, Queued
<1>4. NoMissedNotify'
  BY DEF NoMissedNotify
<1> QED
  BY <1>1, <1>2, <1>3, <1>4

\* The waiter has been told of the time-out.
LEMMA GiveUpKeeps ==
  ASSUME IInv, NEW t \in Task, GiveUp(t)
  PROVE  IInv'
<1> USE TasksAreDistinct DEF IInv, GiveUp, Goto
<1>1. TypeOK'
  BY DEF TypeOK, PC
<1>2. WaitsWithMutex' /\ DeadIsUnused'
  BY DEF WaitsWithMutex, DeadIsUnused
<1>3. Listed(waiter_list)'
  BY DEF Listed, Queued
<1>4. NoMissedNotify'
  BY DEF NoMissedNotify
<1> QED
  BY <1>1, <1>2, <1>3, <1>4

\* The predicate becomes true while nobody is on the way into the wait.
LEMMA SetKeeps ==
  ASSUME IInv, NEW t \in Task, Set(t)
  PROVE  IInv'
<1> USE TasksAreDistinct DEF IInv, Set, Goto
<1>1. TypeOK'
  BY DEF TypeOK, PC
<1>2. WaitsWithMutex' /\ DeadIsUnused'
  BY DEF WaitsWithMutex, DeadIsUnused, Task
<1>3. Listed(waiter_list)'
  BY DEF Listed
<1>4. NoMissedNotify'
  BY DEF TypeOK, NoMissedNotify
<1> QED
  BY <1>1, <1>2, <1>3, <1>4

\* The waiter gives the mutex back.
LEMMA PastDeadlineKeeps ==
  ASSUME IInv, NEW t \in Task, PastDeadline(t)
  PROVE  IInv'
<1> USE TasksAreDistinct DEF IInv, PastDeadline, Goto
<1>1. TypeOK'
  BY DEF TypeOK, PC
<1>2. WaitsWithMutex' /\ DeadIsUnused'
  BY DEF TypeOK, WaitsWithMutex, DeadIsUnused, Task
<1>3. Listed(waiter_list)'
  BY DEF Listed, Queued
<1>4. NoMissedNotify'
  BY DEF NoMissedNotify
<1> QED
  BY <1>1, <1>2, <1>3, <1>4

\* The waiter is on the list already.
LEMMA UnlockMutexKeeps ==
  ASSUME IInv, NEW t \in Task, UnlockMutex(t)
  PROVE  IInv'
<1> USE TasksAreDistinct DEF IInv, UnlockMutex, Goto
<1>1. TypeOK'
  BY DEF TypeOK, PC, Queued
<1>2. WaitsWithMutex' /\ DeadIsUnused'
  BY DEF TypeOK, WaitsWithMutex, DeadIsUnused, Task
<1>3. Listed(waiter_list)'
  BY DEF Listed, Queued
<1>4. NoMissedNotify'
  BY DEF WaitsWithMutex, NoMissedNotify
<1> QED
  BY <1>1, <1>2, <1>3, <1>4

\* The give has been used.
LEMMA WokenKeeps ==
  ASSUME IInv, NEW t \in Task, Woken(t)
  PROVE  IInv'
<1> USE TasksAreDistinct DEF IInv, Woken, Goto
<1>1. TypeOK'
  BY DEF TypeOK, PC, Queued, Task
<1>2. WaitsWithMutex' /\ DeadIsUnused'
  BY DEF WaitsWithMutex, DeadIsUnused
<1>3. Listed(waiter_list)'
  BY DEF Listed, Queued
<1>4. NoMissedNotify'
  BY DEF TypeOK, NoMissedNotify
<1> QED
  BY <1>1, <1>2, <1>3, <1>4

\* The waiter leaves by itself.
LEMMA TimedOutKeeps ==
  ASSUME IInv, NEW t \in Task, TimedOut(t)
  PROVE  IInv'
<1> USE TasksAreDistinct DEF IInv, TimedOut, Goto
<1>1. TypeOK'
  BY DEF TypeOK, PC, Queued
<1>2. WaitsWithMutex' /\ DeadIsUnused'
  BY DEF WaitsWithMutex, DeadIsUnused
<1>3. Listed(waiter_list)'
  BY DEF Listed, Queued
<1>4. NoMissedNotify'
  BY DEF NoMissedNotify
<1> QED
  BY <1>1, <1>2, <1>3, <1>4

\* A notification for no reason only raises counts.
LEMMA NotifyAtWillKeeps ==
  ASSUME IInv, NEW t \in Task, NotifyAtWill(t)
  PROVE  IInv'
<1> USE DEF IInv
<1>1. TypeOK'
  BY GiveRaises DEF NotifyAtWill, TypeOK
<1>2. WaitsWithMutex' /\ DeadIsUnused'
  BY DEF NotifyAtWill, WaitsWithMutex, DeadIsUnused
<1>3. Listed(waiter_list)'
  BY DEF NotifyAtWill, Listed
<1>4. NoMissedNotify'
  BY GiveRaises DEF NotifyAtWill, NoMissedNotify
<1> QED
  BY <1>1, <1>2, <1>3, <1>4

\* Every sleeper is on the list, and is given to.
LEMMA NotifyKeeps ==
  ASSUME IInv, NEW t \in Task, Notify(t)
  PROVE  IInv'
<1> USE DEF IInv
<1>1. Give(BroadcastAll(waiter_list))
  BY DEF Notify
<1>2. TypeOK'
  BY GiveRaises DEF Notify, Goto, TypeOK, PC
<1>3. WaitsWithMutex' /\ DeadIsUnused'
  BY DEF Notify, Goto, WaitsWithMutex, DeadIsUnused
<1>4. Listed(waiter_list)'
  BY DEF Notify, Goto, Listed, Queued
<1>5. NoMissedNotify'
  <2>1. \A u \in Waiter : pc[u] = "asleep" => u \in BroadcastAll(waiter_list)
    BY DEF Listed, Queued, BroadcastAll
  <2>2. \A u \in Waiter : pc'[u] = "asleep" => pc[u] = "asleep"
    BY DEF Notify, Goto
  <2> QED
    BY <1>1, <2>1, <2>2, GiveRaises DEF NoMissedNotify
<1> QED
  BY <1>2, <1>3, <1>4, <1>5

\* Nobody waits, and the users keep away.
LEMMA DestroyKeeps ==
  ASSUME IInv, NEW t \in Task, Destroy(t)
  PROVE  IInv'
<1> USE TasksAreDistinct DEF IInv, Destroy, Goto
<1>1. TypeOK'
  BY DEF TypeOK, PC, Queued, Task
<1>2. WaitsWithMutex' /\ DeadIsUnused'
  <2>1. \A u \in Waiter : pc[u] \notin Queued
    BY EmptyIsListed DEF Listed
  <2> QED
    BY <2>1 DEF WaitsWithMutex, DeadIsUnused, NotAboutToUse, Queued, Task
<1>3. Listed(waiter_list)'
  BY DEF Listed
<1>4. NoMissedNotify'
  BY DEF NoMissedNotify
<1> QED
  BY <1>1, <1>2, <1>3, <1>4

\* The new list is empty, as the old one was.
LEMMA CondInitKeeps ==
  ASSUME IInv, NEW t \in Task, CondInit(t)
  PROVE  IInv'
<1> USE TasksAreDistinct DEF IInv, CondInit, Goto
<1>1. TypeOK'
  BY DEF TypeOK
<1>2. WaitsWithMutex' /\ DeadIsUnused'
  BY DEF WaitsWithMutex, DeadIsUnused
<1>3. Listed(waiter_list)'
  BY EmptyIsListed DEF DeadIsUnused, Listed, Queued, Task
<1>4. NoMissedNotify'
  BY DEF NoMissedNotify
<1> QED
  BY <1>1, <1>2, <1>3, <1>4

\* The waiter, which was not on the list, comes last on it.
LEMMA EnqueueKeeps ==
  ASSUME IInv, NEW t \in Task, Enqueue(t)
  PROVE  IInv'
<1> USE DEF IInv
<1>1. t \in Waiter /\ mutex = t /\ ~ ready
  BY DEF Enqueue, WaitsWithMutex, Task
<1>2. /\ waiter_list \in Seq(Waiter) /\ waiter_list' \in Seq(Waiter)
      /\ Len(waiter_list) \in Nat /\ Len(waiter_list') = Len(waiter_list) + 1
      /\ \A i \in 1 .. Len(waiter_list) : waiter_list'[i] = waiter_list[i]
      /\ waiter_list'[Len(waiter_list) + 1] = t
  BY <1>1 DEF Enqueue, TypeOK
<1>3. TypeOK'
  BY <1>1 DEF Enqueue, Goto, TypeOK, PC, Queued
<1>4. WaitsWithMutex' /\ DeadIsUnused'
  BY DEF Enqueue, Goto, WaitsWithMutex, DeadIsUnused
<1>5. Listed(waiter_list)'
  <2>1. ToSet(waiter_list)' = ToSet(waiter_list) \cup {t}
    BY <1>2 DEF ToSet
  <2>2. t \notin ToSet(waiter_list)
    BY DEF Enqueue, Listed, Queued
  <2>3. \A i, j \in DOMAIN waiter_list' : i # j => waiter_list'[i] # waiter_list'[j]
    BY <1>2, <2>2 DEF Listed, ToSet
  <2> QED
    BY <1>1, <2>1, <2>3 DEF Enqueue, Goto, TypeOK, Listed, Queued
<1>6. NoMissedNotify'
  BY <1>1 DEF Enqueue, NoMissedNotify
<1> QED
  BY <1>3, <1>4, <1>5, <1>6

\* The waiter takes itself off the list, and nobody else.
LEMMA LeaveKeeps ==
  ASSUME IInv, NEW t \in Task, Leave(t)
  PROVE  IInv'
<1> USE DEF IInv
<1>1. /\ waiter_list' \in Seq(Waiter)
      /\ ToSet(waiter_list') = ToSet(waiter_list) \ {t}
      /\ \A i, j \in DOMAIN waiter_list' : i # j => waiter_list'[i] # waiter_list'[j]
  BY RemoveAtLeavesRest DEF Leave, TypeOK, Listed
<1>2. TypeOK'
  BY <1>1 DEF Leave, Goto, TypeOK, PC
<1>3. WaitsWithMutex' /\ DeadIsUnused'
  BY DEF Leave, Goto, WaitsWithMutex, DeadIsUnused
<1>4. Listed(waiter_list)'
  BY <1>1 DEF Leave, Goto, TypeOK, Listed, Queued
<1>5. NoMissedNotify'
  BY DEF Leave, Goto, NoMissedNotify
<1> QED
  BY <1>2, <1>3, <1>4, <1>5

-----------------------------------------------------------------------------
LEMMA StepKeeps == IInv /\ [Next]_vars => IInv'
<1> SUFFICES ASSUME IInv, [Next]_vars PROVE IInv'
  OBVIOUS
<1>1. CASE UNCHANGED vars
  BY <1>1
  DEF vars, IInv, TypeOK, WaitsWithMutex, DeadIsUnused, Listed, NoMissedNotify
<1>2. CASE Next
  BY <1>2, EnterKeeps, ProceedKeeps, WaitKeeps, GiveUpKeeps, SetKeeps,
     EnqueueKeeps, PastDeadlineKeeps, UnlockMutexKeeps, WokenKeeps,
     TimedOutKeeps, LeaveKeeps, NotifyKeeps, NotifyAtWillKeeps, DestroyKeeps,
     CondInitKeeps
  DEF Next, Continue
<1> QED
  BY <1>1, <1>2

\* The inductive invariant of the condition variable and its users.
THEOREM Invariance == Spec => []IInv
  BY Starts, StepKeeps, PTL DEF Spec

\* Types, for any sets of waiters and setters.
THEOREM TypeCorrect == Spec => []TypeOK
<1>1. IInv => TypeOK
  BY DEF IInv
<1> QED
  BY <1>1, Invariance, PTL

\* pthread_cond_signal and pthread_cond_broadcast give only to waiters that
\* are in the wait, and pthread_cond_destroy frees a list without any.
THEOREM ListIsExact == Spec => []ListHoldsLiveWaiters
<1>1. IInv => ListHoldsLiveWaiters
  BY DEF IInv, Listed, DeadIsUnused, ListHoldsLiveWaiters, Queued, Task
<1> QED
  BY <1>1, Invariance, PTL

\* pthread_cond_timedwait misses no broadcast that follows a change of the
\* predicate, whatever else is signalled, timed out or destroyed meanwhile.
THEOREM NoWakeUpIsMissed == Spec => []NoMissedNotify
<1>1. IInv => NoMissedNotify
  BY DEF IInv
<1> QED
  BY <1>1, Invariance, PTL
=============================================================================
