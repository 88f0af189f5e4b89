--------------------------- MODULE RwLock_proofs ---------------------------
(***************************************************************************)
(* Proofs about the reader-writer lock, for any finite set of tasks that   *)
(* may hold at most 127 read locks between them (ReadersFit).              *)
(*                                                                         *)
(* The counters are numbers and what they stand for are sets, so the proof *)
(* has two layers: Counting relates each counter to the set it counts and  *)
(* says when it is zero, by lemmas about finite sets; the other parts of   *)
(* the invariant say who is in which set and argue without cardinalities.  *)
(***************************************************************************)
EXTENDS RwLock, FiniteSetTheorems, TLAPS

\* A task inside a section, and who holds resource_mutex from its call on.
Mutex ==
  /\ resource # NoTask => pc[resource] \in Locking
  /\ \A t \in Task : pc[t] \in {"tryrd", "trywr"} => resource = t

\* The list of the condition variable is that of the tasks in a wait.
Listed == waiters = {t \in Task : pc[t] \in Waiting}

\* What holds of the caller when it makes a call holds until it returns.
Callers ==
  \A t \in Task :
    /\ pc[t] \in {"rdlock", "rdwait", "rdagain", "tryrd"} => MayRead(t)
    /\ pc[t] \in {"wrlock", "wrwait", "wragain", "trywr"} => MayWrite(t)
    /\ pc[t] = "unlock" => MayUnlock(t)

\* Mutual exclusion of a writer and anyone else.
Exclusive ==
  /\ \A t, u \in writing : t = u
  /\ writing # {} => \A t \in Task : hold[t] = 0

Destroyed ==
  ~ alive => /\ \A t \in Task : pc[t] = "run" /\ hold[t] = 0
             /\ writing = {}

Queue == {t \in Task : pc[t] \in {"wrwait", "wragain"}}

\* Each counter is zero exactly when what it counts is empty.
Zero ==
  /\ active_readers \in Nat
  /\ active_readers = 0 <=> \A t \in Task : hold[t] = 0
  /\ active_writers = 0 <=> writing = {}
  /\ waiting_writers \in Nat
  /\ waiting_writers = 0 <=> Queue = {}

IInv ==
  /\ TypeOK
  /\ Mutex
  /\ Listed
  /\ Callers
  /\ Exclusive
  /\ Destroyed
  /\ CountersMatchHolders
  /\ NoLostWakeup

-----------------------------------------------------------------------------
Tokens(h) == {k \in Task \X (1 .. MaxHold) : k[2] <= h[k[1]]}

LEMMA TokensFinite ==
  ASSUME NEW h \in [Task -> 0 .. MaxHold]
  PROVE  /\ IsFiniteSet(Tokens(h))
         /\ Cardinality(Tokens(h)) \in Nat
         /\ Cardinality(Tokens(h)) <= Cardinality(Task \X (1 .. MaxHold))
  <1>1. IsFiniteSet(Task \X (1 .. MaxHold))
    <2>1. IsFiniteSet(1 .. MaxHold)
      BY TasksAreFinite, FS_Interval
    <2> QED
      BY <2>1, TasksAreFinite, FS_Product
  <1>2. Tokens(h) \in SUBSET (Task \X (1 .. MaxHold))
    BY DEF Tokens
  <1> QED
    BY <1>1, <1>2, FS_Subset, FS_CardinalityType

\* A read lock more is a token more, and one fewer is a token fewer.
LEMMA TokenAdded ==
  ASSUME NEW h \in [Task -> 0 .. MaxHold], NEW t \in Task, h[t] < MaxHold
  PROVE  Cardinality(Tokens([h EXCEPT ![t] = @ + 1])) = Cardinality(Tokens(h)) + 1
  <1> DEFINE k == <<t, h[t] + 1>>
  <1>1. k \notin Tokens(h)
    BY DEF Tokens
  <1>2. Tokens([h EXCEPT ![t] = @ + 1]) = Tokens(h) \cup {k}
    BY TasksAreFinite DEF Tokens
  <1> QED
    BY <1>1, <1>2, TokensFinite, FS_AddElement

LEMMA TokenDropped ==
  ASSUME NEW h \in [Task -> 0 .. MaxHold], NEW t \in Task, h[t] > 0
  PROVE  Cardinality(Tokens([h EXCEPT ![t] = @ - 1])) = Cardinality(Tokens(h)) - 1
  <1> DEFINE k == <<t, h[t]>>
  <1>1. k \in Tokens(h)
    BY DEF Tokens
  <1>2. Tokens([h EXCEPT ![t] = @ - 1]) = Tokens(h) \ {k}
    BY DEF Tokens
  <1> QED
    BY <1>1, <1>2, TokensFinite, FS_RemoveElement

LEMMA NoTokens ==
  ASSUME NEW h \in [Task -> 0 .. MaxHold]
  PROVE  Cardinality(Tokens(h)) = 0 <=> \A t \in Task : h[t] = 0
  <1>1. Tokens(h) = {} <=> \A t \in Task : h[t] = 0
    <2>1. ASSUME NEW t \in Task, h[t] # 0
          PROVE  <<t, 1>> \in Tokens(h)
      BY <2>1, TasksAreFinite DEF Tokens
    <2>2. (\A t \in Task : h[t] = 0) => Tokens(h) = {}
      BY DEF Tokens
    <2> QED
      BY <2>1, <2>2
  <1> QED
    BY <1>1, TokensFinite, FS_EmptySet

\* The counters by what they count, when no count exceeds 127.
LEMMA Zeros ==
  ASSUME ReadersFit, IInv
  PROVE  Zero /\ active_readers <= 127
  <1>1. hold \in [Task -> 0 .. MaxHold] /\ active_readers = Cardinality(Tokens(hold))
    BY DEF IInv, TypeOK, CountersMatchHolders, ReaderCountIsExact, ReadTokens,
           Tokens
  <1>2. /\ active_readers \in Nat
        /\ active_readers = 0 <=> \A t \in Task : hold[t] = 0
    BY <1>1, TokensFinite, NoTokens
  <1>3. IsFiniteSet(writing) /\ IsFiniteSet(Queue)
    BY TasksAreFinite, FS_Subset DEF IInv, TypeOK, Queue
  <1>4. active_writers = 0 <=> writing = {}
    BY <1>3, FS_EmptySet DEF IInv, CountersMatchHolders
  <1>5. waiting_writers \in Nat /\ (waiting_writers = 0 <=> Queue = {})
    BY <1>3, FS_EmptySet, FS_CardinalityType
    DEF IInv, CountersMatchHolders, Queue
  <1> QED
    BY <1>2, <1>4, <1>5 DEF Zero, IInv, TypeOK

-----------------------------------------------------------------------------
\* What each change of a counter does to the set it counts.
LEMMA Readers ==
  ASSUME ReadersFit, IInv
  PROVE  /\ hold \in [Task -> 0 .. MaxHold]
         /\ active_readers = Cardinality(Tokens(hold))
         /\ active_readers \in 0 .. 127
  <1>1. hold \in [Task -> 0 .. MaxHold] /\ active_readers \in Int
    BY DEF IInv, TypeOK
  <1>2. active_readers = Cardinality(Tokens(hold))
    BY DEF IInv, CountersMatchHolders, ReaderCountIsExact, ReadTokens, Tokens
  <1>3. active_readers >= 0 /\ active_readers <= 127
    BY Zeros DEF Zero
  <1> QED
    BY <1>1, <1>2, <1>3

LEMMA ReadGranted ==
  ASSUME ReadersFit, IInv, NEW t \in Task, hold[t] < MaxHold, GrantRead(t)
  PROVE  /\ hold' \in [Task -> 0 .. MaxHold]
         /\ active_readers' \in 1 .. 127
         /\ ReaderCountIsExact'
  <1>1. /\ hold \in [Task -> 0 .. MaxHold]
        /\ active_readers = Cardinality(Tokens(hold)) /\ active_readers \in 0 .. 127
    BY Readers
  <1>2. hold' = [hold EXCEPT ![t] = @ + 1] /\ hold' \in [Task -> 0 .. MaxHold]
    BY <1>1, TasksAreFinite DEF GrantRead
  <1>3. Cardinality(Tokens(hold')) = active_readers + 1
    BY <1>1, <1>2, TokenAdded
  <1>4. Cardinality(Tokens(hold')) <= 127
    <2>1. /\ Cardinality(Tokens(hold')) \in Nat
          /\ Cardinality(Tokens(hold')) <= Cardinality(Task \X (1 .. MaxHold))
      BY <1>2, TokensFinite
    <2>2. Cardinality(Task \X (1 .. MaxHold)) \in Nat
      <3>1. IsFiniteSet(1 .. MaxHold)
        BY TasksAreFinite, FS_Interval
      <3> QED
        BY <3>1, TasksAreFinite, FS_Product, FS_CardinalityType
    <2> QED
      BY <2>1, <2>2 DEF ReadersFit
  <1>5. active_readers' = active_readers + 1
    BY <1>1, <1>3, <1>4 DEF GrantRead, Int8
  <1>6. ReaderCountIsExact'
    BY <1>3, <1>5 DEF ReaderCountIsExact, ReadTokens, Tokens
  <1> QED
    BY <1>1, <1>2, <1>3, <1>4, <1>5, <1>6

LEMMA ReadReleased ==
  ASSUME ReadersFit, IInv, NEW t \in Task, hold[t] > 0,
         active_readers' = Int8(active_readers - 1), hold' = [hold EXCEPT ![t] = @ - 1]
  PROVE  /\ hold' \in [Task -> 0 .. MaxHold]
         /\ active_readers' \in 0 .. 126
         /\ ReaderCountIsExact'
  <1>1. /\ hold \in [Task -> 0 .. MaxHold]
        /\ active_readers = Cardinality(Tokens(hold)) /\ active_readers \in 0 .. 127
    BY Readers
  <1>2. hold' \in [Task -> 0 .. MaxHold]
    BY <1>1, TasksAreFinite
  <1>3. Cardinality(Tokens(hold')) = active_readers - 1
    BY <1>1, TokenDropped
  <1>4. active_readers >= 1
    <2>1. Cardinality(Tokens(hold')) \in Nat
      BY <1>2, TokensFinite
    <2> QED
      BY <1>1, <1>3, <2>1
  <1>5. active_readers' = active_readers - 1
    BY <1>1 DEF Int8
  <1>6. ReaderCountIsExact'
    BY <1>3, <1>5 DEF ReaderCountIsExact, ReadTokens, Tokens
  <1> QED
    BY <1>1, <1>2, <1>4, <1>5, <1>6

LEMMA ReadersKept ==
  ASSUME IInv, UNCHANGED <<active_readers, hold>>
  PROVE  ReaderCountIsExact'
  BY DEF IInv, CountersMatchHolders, ReaderCountIsExact, ReadTokens

LEMMA CountersKept ==
  ASSUME IInv, UNCHANGED <<counters, held>>, Queue' = Queue
  PROVE  CountersMatchHolders'
  <1>1. ReaderCountIsExact'
    BY ReadersKept DEF counters, held
  <1> QED
    BY <1>1 DEF IInv, CountersMatchHolders, Queue, counters, held

LEMMA QueueIsFinite ==
  ASSUME IInv
  PROVE  IsFiniteSet(Queue) /\ waiting_writers = Cardinality(Queue) /\ waiting_writers \in Int
  BY TasksAreFinite, FS_Subset DEF IInv, TypeOK, CountersMatchHolders, Queue

\* CallLock preserves the invariant.
LEMMA CallLockStep ==
  ASSUME ReadersFit, IInv, NEW t \in Task, CallLock(t)
  PROVE  IInv'
  <1>1. TypeOK'
    BY TasksAreFinite DEF CallLock, Goto, IInv, TypeOK, Locking, counters, held
  <1>2. Mutex'
    BY TasksAreFinite DEF CallLock, Goto, IInv, Mutex, TypeOK, Locking
  <1>3. Listed'
    BY DEF CallLock, Goto, IInv, Listed, TypeOK, Waiting
  <1>4. Callers'
    BY DEF CallLock, Goto, IInv, Callers, TypeOK, MayRead, MayWrite, MayUnlock,
           held
  <1>5. Exclusive'
    BY DEF CallLock, IInv, Exclusive, held
  <1>6. Destroyed'
    BY DEF CallLock, Destroyed
  <1>7. NoLostWakeup'
    BY DEF CallLock, Goto, IInv, NoLostWakeup, TypeOK, counters
  <1>8. CountersMatchHolders'
    <2>1. Queue' = Queue
      BY DEF CallLock, Goto, IInv, TypeOK, Queue
    <2> QED
      BY <2>1, CountersKept DEF CallLock
  <1> QED
    BY <1>1, <1>2, <1>3, <1>4, <1>5, <1>6, <1>7, <1>8 DEF IInv

\* CallUnlock preserves the invariant.
LEMMA CallUnlockStep ==
  ASSUME ReadersFit, IInv, NEW t \in Task, CallUnlock(t)
  PROVE  IInv'
  <1>1. TypeOK'
    BY DEF CallUnlock, Goto, IInv, TypeOK, Locking, counters, held
  <1>2. Mutex'
    BY DEF CallUnlock, Goto, IInv, Mutex, Locking
  <1>3. Listed'
    BY DEF CallUnlock, Goto, IInv, Listed, Waiting
  <1>4. Callers'
    BY DEF CallUnlock, Goto, IInv, Callers, MayRead, MayWrite, MayUnlock, held
  <1>5. Exclusive'
    BY DEF CallUnlock, IInv, Exclusive, held
  <1>6. Destroyed'
    BY DEF CallUnlock, IInv, Destroyed, MayUnlock
  <1>7. NoLostWakeup'
    BY DEF CallUnlock, Goto, IInv, NoLostWakeup, counters
  <1>8. CountersMatchHolders'
    <2>1. Queue' = Queue
      BY DEF CallUnlock, Goto, Queue
    <2> QED
      BY <2>1, CountersKept DEF CallUnlock
  <1> QED
    BY <1>1, <1>2, <1>3, <1>4, <1>5, <1>6, <1>7, <1>8 DEF IInv

\* Take preserves the invariant.
LEMMA TakeStep ==
  ASSUME ReadersFit, IInv, NEW t \in Task, Take(t)
  PROVE  IInv'
  <1>1. TypeOK'
    BY DEF Take, IInv, TypeOK, counters, held
  <1>2. Mutex'
    BY TasksAreFinite DEF Take, IInv, Mutex
  <1>3. Listed'
    BY DEF Take, IInv, Listed
  <1>4. Callers'
    BY DEF Take, IInv, Callers, MayRead, MayWrite, MayUnlock, held
  <1>5. Exclusive'
    BY DEF Take, IInv, Exclusive, held
  <1>6. Destroyed'
    BY DEF Take, IInv, Destroyed, Locking
  <1>7. NoLostWakeup'
    BY DEF Take, IInv, NoLostWakeup, counters
  <1>8. CountersMatchHolders'
    <2>1. Queue' = Queue
      BY DEF Take, Queue
    <2> QED
      BY <2>1, CountersKept DEF Take
  <1> QED
    BY <1>1, <1>2, <1>3, <1>4, <1>5, <1>6, <1>7, <1>8 DEF IInv

\* Wake preserves the invariant.
LEMMA WakeStep ==
  ASSUME ReadersFit, IInv, NEW t \in Task, Wake(t)
  PROVE  IInv'
  <1>1. TypeOK'
    BY DEF Wake, Goto, Unlist, IInv, TypeOK, Locking, counters, held
  <1>2. Mutex'
    BY DEF Wake, Goto, IInv, Mutex, Locking
  <1>3. Listed'
    BY DEF Wake, Goto, Unlist, IInv, Listed, TypeOK, Waiting
  <1>4. Callers'
    <2>1. CASE pc[t] = "rdwait"
      BY <2>1 DEF Wake, Goto, IInv, Callers, MayRead, MayWrite, MayUnlock, held
    <2>2. CASE pc[t] = "wrwait"
      BY <2>2 DEF Wake, Goto, IInv, Callers, MayRead, MayWrite, MayUnlock, held
    <2> QED
      BY <2>1, <2>2 DEF Wake, Waiting
  <1>5. Exclusive'
    BY DEF Wake, IInv, Exclusive, held
  <1>6. Destroyed'
    BY DEF Wake, IInv, Destroyed, Waiting
  <1>7. NoLostWakeup'
    BY DEF Wake, Goto, Unlist, IInv, NoLostWakeup, counters
  <1>8. CountersMatchHolders'
    <2>1. Queue' = Queue
      <3>1. CASE pc[t] = "rdwait"
        BY <3>1 DEF Wake, Goto, Queue
      <3>2. CASE pc[t] = "wrwait"
        BY <3>2 DEF Wake, Goto, Queue
      <3> QED
        BY <3>1, <3>2 DEF Wake, Waiting
    <2> QED
      BY <2>1, CountersKept DEF Wake
  <1> QED
    BY <1>1, <1>2, <1>3, <1>4, <1>5, <1>6, <1>7, <1>8 DEF IInv

\* RdLockGranted preserves the invariant.
LEMMA RdLockGrantedStep ==
  ASSUME ReadersFit, IInv, NEW t \in Task, RdLockGranted(t)
  PROVE  IInv'
  <1>z. Zero
    BY Zeros
  <1>g. /\ hold' \in [Task -> 0 .. MaxHold]
        /\ active_readers' \in 1 .. 127
        /\ ReaderCountIsExact'
    <2>1. hold[t] < MaxHold
      BY DEF RdLockGranted, IInv, Callers, MayRead
    <2> QED
      BY <2>1, ReadGranted DEF RdLockGranted
  <1>1. TypeOK'
    BY <1>g DEF RdLockGranted, Goto, Leave, GrantRead, IInv, TypeOK
  <1>2. Mutex'
    BY DEF RdLockGranted, Goto, Leave, IInv, Mutex
  <1>3. Listed'
    BY DEF RdLockGranted, Goto, Leave, IInv, Listed, Waiting
  <1>4. Callers'
    BY DEF RdLockGranted, Goto, Leave, GrantRead, IInv, Callers, TypeOK,
           MayRead, MayWrite, MayUnlock
  <1>5. Exclusive'
    BY <1>z DEF RdLockGranted, GrantRead, ReaderMayEnter, Exclusive, Zero
  <1>6. Destroyed'
    BY DEF RdLockGranted, Leave, IInv, Destroyed
  <1>7. NoLostWakeup'
    BY <1>g DEF NoLostWakeup
  <1>8. CountersMatchHolders'
    <2>1. Queue' = Queue
      BY DEF RdLockGranted, Leave, Goto, Queue
    <2>2. UNCHANGED <<active_writers, waiting_writers, writing>> /\ active_writers = 0
      BY DEF RdLockGranted, GrantRead, ReaderMayEnter
    <2> QED
      BY <1>g, <2>1, <2>2 DEF IInv, CountersMatchHolders, Queue
  <1> QED
    BY <1>1, <1>2, <1>3, <1>4, <1>5, <1>6, <1>7, <1>8 DEF IInv

\* RdLockWaits preserves the invariant.
LEMMA RdLockWaitsStep ==
  ASSUME ReadersFit, IInv, NEW t \in Task, RdLockWaits(t)
  PROVE  IInv'
  <1>z. Zero
    BY Zeros
  <1>1. TypeOK'
    BY DEF RdLockWaits, Goto, CondWait, IInv, TypeOK, Waiting, counters, held
  <1>2. Mutex'
    BY DEF RdLockWaits, Goto, CondWait, IInv, Mutex
  <1>3. Listed'
    BY DEF RdLockWaits, Goto, CondWait, IInv, Listed, TypeOK, Waiting
  <1>4. Callers'
    BY DEF RdLockWaits, Goto, CondWait, IInv, Callers, MayRead, MayWrite,
           MayUnlock, held
  <1>5. Exclusive'
    BY DEF RdLockWaits, CondWait, IInv, Exclusive, held
  <1>6. Destroyed'
    BY DEF RdLockWaits, CondWait, IInv, Destroyed
  <1>7. NoLostWakeup'
    BY <1>z
    DEF RdLockWaits, Goto, CondWait, ReaderMayEnter, IInv, NoLostWakeup, TypeOK,
        Zero, counters
  <1>8. CountersMatchHolders'
    <2>1. Queue' = Queue
      BY DEF RdLockWaits, Goto, CondWait, Queue
    <2> QED
      BY <2>1, CountersKept DEF RdLockWaits, CondWait
  <1> QED
    BY <1>1, <1>2, <1>3, <1>4, <1>5, <1>6, <1>7, <1>8 DEF IInv

\* WrLockGranted preserves the invariant.
LEMMA WrLockGrantedStep ==
  ASSUME ReadersFit, IInv, NEW t \in Task, WrLockGranted(t)
  PROVE  IInv'
  <1>z. Zero
    BY Zeros
  <1>1. TypeOK'
    BY DEF WrLockGranted, Goto, Leave, GrantWrite, CountOut, IInv, TypeOK
  <1>2. Mutex'
    BY DEF WrLockGranted, Goto, Leave, IInv, Mutex
  <1>3. Listed'
    BY DEF WrLockGranted, Goto, Leave, IInv, Listed, Waiting
  <1>4. Callers'
    BY DEF WrLockGranted, Goto, Leave, GrantWrite, IInv, Callers, TypeOK,
           MayRead, MayWrite, MayUnlock
  <1>5. Exclusive'
    BY <1>z DEF WrLockGranted, GrantWrite, Free, Exclusive, Zero
  <1>6. Destroyed'
    BY DEF WrLockGranted, Leave, IInv, Destroyed
  <1>7. NoLostWakeup'
    BY DEF WrLockGranted, GrantWrite, Free, NoLostWakeup
  <1>8. CountersMatchHolders'
    <2>1. ReaderCountIsExact'
      BY ReadersKept DEF WrLockGranted, GrantWrite
    <2>2. active_writers' = Cardinality(writing')
      <3>1. writing = {} /\ active_writers' = 1 /\ writing' = {t}
        BY <1>z DEF Zero, WrLockGranted, GrantWrite, Free
      <3> QED
        BY <3>1, FS_Singleton
    <2>3. waiting_writers' = Cardinality(Queue')
      <3>1. CASE pc[t] = "wrlock"
        <4>1. Queue' = Queue
          BY <3>1 DEF WrLockGranted, Leave, Goto, Queue
        <4> QED
          BY <3>1, <4>1, QueueIsFinite DEF WrLockGranted, CountOut
      <3>2. CASE pc[t] = "wragain"
        <4>1. Queue' = Queue \ {t} /\ t \in Queue
          BY <3>2 DEF WrLockGranted, Leave, Goto, IInv, TypeOK, Queue
        <4> QED
          BY <3>2, <4>1, QueueIsFinite, FS_RemoveElement
          DEF WrLockGranted, CountOut
      <3> QED
        BY <3>1, <3>2 DEF WrLockGranted
    <2>4. ~ (active_readers' > 0 /\ active_writers' > 0)
      BY <1>z DEF Zero, WrLockGranted, GrantWrite, Free
    <2> QED
      BY <2>1, <2>2, <2>3, <2>4 DEF CountersMatchHolders, Queue
  <1> QED
    BY <1>1, <1>2, <1>3, <1>4, <1>5, <1>6, <1>7, <1>8 DEF IInv

\* WrLockWaits preserves the invariant.
LEMMA WrLockWaitsStep ==
  ASSUME ReadersFit, IInv, NEW t \in Task, WrLockWaits(t)
  PROVE  IInv'
  <1>1. TypeOK'
    BY DEF WrLockWaits, Goto, CondWait, IInv, TypeOK, Waiting, held
  <1>2. Mutex'
    BY DEF WrLockWaits, Goto, CondWait, IInv, Mutex
  <1>3. Listed'
    BY DEF WrLockWaits, Goto, CondWait, IInv, Listed, TypeOK, Waiting
  <1>4. Callers'
    BY DEF WrLockWaits, Goto, CondWait, IInv, Callers, MayRead, MayWrite,
           MayUnlock, held
  <1>5. Exclusive'
    BY DEF WrLockWaits, CondWait, IInv, Exclusive, held
  <1>6. Destroyed'
    BY DEF WrLockWaits, CondWait, IInv, Destroyed
  <1>7. NoLostWakeup'
    BY DEF WrLockWaits, Free, IInv, NoLostWakeup, TypeOK
  <1>8. CountersMatchHolders'
    <2>1. UNCHANGED <<active_readers, active_writers, hold, writing>>
      BY DEF WrLockWaits, CondWait, held
    <2>2. ReaderCountIsExact'
      BY <2>1, ReadersKept
    <2>3. waiting_writers' = Cardinality(Queue')
      <3>1. CASE pc[t] = "wrlock"
        <4>1. Queue' = Queue \cup {t} /\ t \notin Queue
          BY <3>1 DEF WrLockWaits, CondWait, Goto, IInv, TypeOK, Queue
        <4> QED
          BY <3>1, <4>1, QueueIsFinite, FS_AddElement DEF WrLockWaits
      <3>2. CASE pc[t] = "wragain"
        <4>1. Queue' = Queue
          BY <3>2 DEF WrLockWaits, CondWait, Goto, Queue
        <4> QED
          BY <3>2, <4>1, QueueIsFinite DEF WrLockWaits
      <3> QED
        BY <3>1, <3>2 DEF WrLockWaits
    <2> QED
      BY <2>1, <2>2, <2>3 DEF IInv, CountersMatchHolders, Queue
  <1> QED
    BY <1>1, <1>2, <1>3, <1>4, <1>5, <1>6, <1>7, <1>8 DEF IInv

\* TryRdLock preserves the invariant.
LEMMA TryRdLockStep ==
  ASSUME ReadersFit, IInv, NEW t \in Task, TryRdLock(t)
  PROVE  IInv'
  <1>z. Zero
    BY Zeros
  <1>g. /\ hold' \in [Task -> 0 .. MaxHold]
        /\ active_readers' \in -128 .. 127
        /\ ReaderCountIsExact'
        /\ active_readers' > 0 \/ UNCHANGED <<counters, held>>
    <2>1. CASE active_writers = 0
      <3>1. hold[t] < MaxHold
        BY DEF TryRdLock, IInv, Callers, MayRead
      <3>2. GrantRead(t)
        BY <2>1 DEF TryRdLock
      <3> QED
        BY <3>1, <3>2, ReadGranted
    <2>2. CASE active_writers # 0
      <3>1. UNCHANGED <<counters, held>>
        BY <2>2 DEF TryRdLock, counters
      <3> QED
        BY <3>1, ReadersKept DEF IInv, TypeOK, counters, held
    <2> QED
      BY <2>1, <2>2
  <1>u. UNCHANGED <<active_writers, waiting_writers, writing>>
    BY DEF TryRdLock, GrantRead, held
  <1>1. TypeOK'
    <2>1. /\ UNCHANGED <<waiters, woken, alive, calls>>
          /\ resource' = NoTask /\ pc' = [pc EXCEPT ![t] = "run"]
      BY DEF TryRdLock, Leave, Goto
    <2> QED
      BY <1>g, <1>u, <2>1 DEF IInv, TypeOK
  <1>2. Mutex'
    BY DEF TryRdLock, Goto, Leave, IInv, Mutex, TypeOK
  <1>3. Listed'
    BY DEF TryRdLock, Goto, Leave, IInv, Listed, Waiting
  <1>4. Callers'
    BY DEF TryRdLock, Goto, Leave, GrantRead, IInv, Callers, TypeOK, MayRead,
           MayWrite, MayUnlock, held
  <1>5. Exclusive'
    BY <1>z DEF TryRdLock, GrantRead, IInv, Exclusive, Zero, held
  <1>6. Destroyed'
    BY DEF TryRdLock, Leave, IInv, Destroyed
  <1>7. NoLostWakeup'
    <2>1. /\ pc[t] \notin Waiting /\ pc' = [pc EXCEPT ![t] = "run"]
          /\ UNCHANGED <<waiters, woken>>
      BY DEF TryRdLock, Leave, Goto, Waiting
    <2>2. CASE active_readers' > 0
      BY <2>2 DEF NoLostWakeup
    <2>3. CASE UNCHANGED <<counters, held>>
      BY <2>1, <2>3 DEF IInv, NoLostWakeup, Listed, counters
    <2> QED
      BY <1>g, <2>2, <2>3
  <1>8. CountersMatchHolders'
    <2>1. Queue' = Queue
      BY DEF TryRdLock, Leave, Goto, Queue
    <2>2. ~ (active_readers' > 0 /\ active_writers' > 0)
      BY <1>u DEF TryRdLock, IInv, CountersMatchHolders
    <2> QED
      BY <1>g, <1>u, <2>1, <2>2 DEF IInv, CountersMatchHolders, Queue
  <1> QED
    BY <1>1, <1>2, <1>3, <1>4, <1>5, <1>6, <1>7, <1>8 DEF IInv

\* TryWrLock preserves the invariant.
LEMMA TryWrLockStep ==
  ASSUME ReadersFit, IInv, NEW t \in Task, TryWrLock(t)
  PROVE  IInv'
  <1>z. Zero
    BY Zeros
  <1>1. TypeOK'
    BY DEF TryWrLock, Goto, Leave, GrantWrite, IInv, TypeOK, held
  <1>2. Mutex'
    BY DEF TryWrLock, Goto, Leave, IInv, Mutex, TypeOK
  <1>3. Listed'
    BY DEF TryWrLock, Goto, Leave, IInv, Listed, Waiting
  <1>4. Callers'
    BY DEF TryWrLock, Goto, Leave, GrantWrite, IInv, Callers, TypeOK, MayRead,
           MayWrite, MayUnlock, held
  <1>5. Exclusive'
    BY <1>z
    DEF TryWrLock, GrantWrite, TryWriterMayEnter, Free, IInv, Exclusive, Zero,
        held
  <1>6. Destroyed'
    BY DEF TryWrLock, Leave, IInv, Destroyed
  <1>7. NoLostWakeup'
    BY DEF TryWrLock, Goto, Leave, GrantWrite, TryWriterMayEnter, Free, IInv,
           NoLostWakeup
  <1>8. CountersMatchHolders'
    <2>1. Queue' = Queue /\ UNCHANGED waiting_writers
      BY DEF TryWrLock, Leave, Goto, Queue
    <2>2. CASE TryWriterMayEnter
      <3>1. /\ active_writers = 0 /\ ~ active_readers' > 0
            /\ UNCHANGED <<active_readers, hold>>
            /\ active_writers' = 1 /\ writing' = {t}
        BY <1>z, <2>2 DEF Zero, TryWrLock, GrantWrite, TryWriterMayEnter, Free
      <3>2. ReaderCountIsExact'
        BY <3>1, ReadersKept
      <3> QED
        BY <2>1, <3>1, <3>2, FS_Singleton DEF IInv, CountersMatchHolders, Queue
    <2>3. CASE ~ TryWriterMayEnter
      <3>1. UNCHANGED <<counters, held>>
        BY <2>3 DEF TryWrLock, counters
      <3> QED
        BY <2>1, <3>1, CountersKept
    <2> QED
      BY <2>2, <2>3
  <1> QED
    BY <1>1, <1>2, <1>3, <1>4, <1>5, <1>6, <1>7, <1>8 DEF IInv

\* Unlock preserves the invariant.
LEMMA UnlockStep ==
  ASSUME ReadersFit, IInv, NEW t \in Task, Unlock(t)
  PROVE  IInv'
  <1>z. Zero
    BY Zeros
  <1>r. active_readers > 0 =>
        /\ UnlockReader(t) /\ UNCHANGED <<active_writers, writing>> /\ active_writers = 0
        /\ hold' = [hold EXCEPT ![t] = @ - 1] /\ hold' \in [Task -> 0 .. MaxHold]
        /\ active_readers' \in 0 .. 126
        /\ ReaderCountIsExact'
    <2> SUFFICES ASSUME active_readers > 0
                 PROVE  /\ UnlockReader(t)
                        /\ UNCHANGED <<active_writers, writing>> /\ active_writers = 0
                        /\ hold' = [hold EXCEPT ![t] = @ - 1]
                        /\ hold' \in [Task -> 0 .. MaxHold]
                        /\ active_readers' \in 0 .. 126
                        /\ ReaderCountIsExact'
      OBVIOUS
    <2>1. UnlockReader(t)
      BY DEF Unlock, UnlockWriter
    <2>2. active_writers = 0 /\ writing = {}
      BY <1>z DEF Zero, IInv, TypeOK, CountersMatchHolders
    <2>3. hold[t] > 0 /\ hold' = [hold EXCEPT ![t] = @ - 1] /\ UNCHANGED writing
      BY <2>2 DEF Unlock, IInv, Callers, MayUnlock
    <2>4. /\ hold' \in [Task -> 0 .. MaxHold]
          /\ active_readers' \in 0 .. 126
          /\ ReaderCountIsExact'
      BY <2>1, <2>3, ReadReleased DEF UnlockReader
    <2> QED
      BY <2>1, <2>2, <2>3, <2>4 DEF UnlockReader
  <1>w. ~ active_readers > 0 =>
        /\ UnlockWriter(t) /\ UNCHANGED <<active_readers, hold>>
        /\ writing = {t} /\ writing' = {} /\ active_writers' = 0
    <2> SUFFICES ASSUME ~ active_readers > 0
                 PROVE  /\ UnlockWriter(t) /\ UNCHANGED <<active_readers, hold>>
                        /\ writing = {t} /\ writing' = {} /\ active_writers' = 0
      OBVIOUS
    <2>1. UnlockWriter(t)
      BY DEF Unlock, UnlockReader
    <2>2. \A u \in Task : hold[u] = 0
      BY <1>z DEF Zero
    <2>3. t \in writing
      BY <2>2 DEF Unlock, IInv, Callers, MayUnlock
    <2>4. writing = {t}
      BY <2>3 DEF IInv, Exclusive
    <2> QED
      BY <2>1, <2>4 DEF Unlock, UnlockWriter
  <1>1. TypeOK'
    BY <1>r, <1>w
    DEF Unlock, UnlockReader, UnlockWriter, Broadcast, Goto, IInv, TypeOK
  <1>2. Mutex'
    BY DEF Unlock, Goto, IInv, Mutex
  <1>3. Listed'
    BY DEF Unlock, Goto, IInv, Listed, Waiting
  <1>4. Callers'
    BY DEF Unlock, Goto, IInv, Callers, TypeOK, MayRead, MayWrite, MayUnlock
  <1>5. Exclusive'
    BY DEF Unlock, IInv, Exclusive, Callers, MayUnlock
  <1>6. Destroyed'
    BY DEF Unlock, IInv, Destroyed
  <1>7. NoLostWakeup'
    <2>1. woken' = waiters' \/ active_readers' > 0
      <3>1. CASE active_readers > 0
        BY <1>r, <3>1 DEF Unlock, UnlockReader, LastReader, Broadcast
      <3>2. CASE ~ active_readers > 0
        BY <1>w, <3>2 DEF Unlock, UnlockWriter, Broadcast
      <3> QED
        BY <3>1, <3>2
    <2> QED
      BY <2>1 DEF NoLostWakeup
  <1>8. CountersMatchHolders'
    <2>1. Queue' = Queue /\ UNCHANGED waiting_writers
      BY DEF Unlock, Goto, Queue
    <2>2. CASE active_readers > 0
      BY <1>r, <2>1, <2>2 DEF IInv, CountersMatchHolders, Queue
    <2>3. CASE ~ active_readers > 0
      <3>1. ReaderCountIsExact'
        BY <1>w, <2>3, ReadersKept
      <3> QED
        BY <1>w, <2>1, <2>3, <3>1, FS_EmptySet
        DEF IInv, CountersMatchHolders, Queue
    <2> QED
      BY <2>2, <2>3
  <1> QED
    BY <1>1, <1>2, <1>3, <1>4, <1>5, <1>6, <1>7, <1>8 DEF IInv

\* Destroy preserves the invariant.
LEMMA DestroyStep ==
  ASSUME ReadersFit, IInv, NEW t \in Task, Destroy(t)
  PROVE  IInv'
  <1>z. Zero
    BY Zeros
  <1>1. TypeOK'
    BY DEF Destroy, IInv, TypeOK, counters, held
  <1>2. Mutex'
    BY DEF Destroy, IInv, Mutex
  <1>3. Listed'
    BY DEF Destroy, IInv, Listed
  <1>4. Callers'
    BY DEF Destroy, Callers
  <1>5. Exclusive'
    BY DEF Destroy, IInv, Exclusive, held
  <1>6. Destroyed'
    BY <1>z DEF Destroy, Unused, Destroyed, Zero, held
  <1>7. NoLostWakeup'
    BY DEF Destroy, Unused, IInv, NoLostWakeup
  <1>8. CountersMatchHolders'
    <2>1. Queue' = Queue
      BY DEF Destroy, Queue
    <2> QED
      BY <2>1, CountersKept DEF Destroy
  <1> QED
    BY <1>1, <1>2, <1>3, <1>4, <1>5, <1>6, <1>7, <1>8 DEF IInv

\* RwLockInit preserves the invariant.
LEMMA RwLockInitStep ==
  ASSUME ReadersFit, IInv, NEW t \in Task, RwLockInit(t)
  PROVE  IInv'
  <1>z. Zero
    BY Zeros
  <1>1. TypeOK'
    BY DEF RwLockInit, IInv, TypeOK, held
  <1>2. Mutex'
    BY DEF RwLockInit, IInv, Mutex
  <1>3. Listed'
    BY DEF RwLockInit, IInv, Listed
  <1>4. Callers'
    BY DEF RwLockInit, IInv, Callers, MayRead, MayWrite, MayUnlock, held
  <1>5. Exclusive'
    BY DEF RwLockInit, IInv, Exclusive, held
  <1>6. Destroyed'
    BY DEF RwLockInit, Destroyed
  <1>7. NoLostWakeup'
    BY <1>z DEF RwLockInit, IInv, NoLostWakeup, TypeOK, Destroyed, Zero
  <1>8. CountersMatchHolders'
    <2>1. Queue = {} /\ Queue' = Queue
      BY DEF RwLockInit, IInv, Destroyed, Queue
    <2>2. UNCHANGED <<counters, held>>
      BY <1>z, <2>1 DEF RwLockInit, IInv, Destroyed, Zero, counters
    <2> QED
      BY <2>1, <2>2, CountersKept
  <1> QED
    BY <1>1, <1>2, <1>3, <1>4, <1>5, <1>6, <1>7, <1>8 DEF IInv

-----------------------------------------------------------------------------
LEMMA InitIInv == Init => IInv
  <1> SUFFICES ASSUME Init PROVE IInv
    OBVIOUS
  <1>1. TypeOK
    BY TasksAreFinite DEF Init, TypeOK
  <1>2. CountersMatchHolders
    <2>1. hold \in [Task -> 0 .. MaxHold] /\ \A t \in Task : hold[t] = 0
      BY TasksAreFinite DEF Init
    <2>2. Cardinality(Tokens(hold)) = 0
      BY <2>1, NoTokens
    <2>3. Queue = {}
      BY DEF Init, Queue
    <2> QED
      BY FS_EmptySet
      DEF Init, CountersMatchHolders, ReaderCountIsExact, ReadTokens
  <1> QED
    BY <1>1, <1>2
    DEF Init, IInv, Mutex, Listed, Callers, Exclusive, Destroyed, NoLostWakeup,
        Waiting

LEMMA NextIInv ==
  ASSUME ReadersFit, IInv, [Next]_vars
  PROVE  IInv'
  <1>1. CASE Next
    <2> PICK t \in Task : CallLock(t) \/ CallUnlock(t) \/ Destroy(t) \/ RwLockInit(t)
                          \/ Take(t) \/ Continue(t)
      BY <1>1 DEF Next
    <2> QED
      BY CallLockStep, CallUnlockStep, TakeStep, WakeStep, RdLockGrantedStep,
         RdLockWaitsStep, WrLockGrantedStep, WrLockWaitsStep, TryRdLockStep,
         TryWrLockStep, UnlockStep, DestroyStep, RwLockInitStep
      DEF Continue
  <1>2. CASE UNCHANGED vars
    BY <1>2
    DEF vars, counters, held, IInv, TypeOK, Mutex, Listed, Callers, MayRead,
        MayWrite, MayUnlock, Exclusive, Destroyed, CountersMatchHolders,
        ReaderCountIsExact, ReadTokens, NoLostWakeup
  <1> QED
    BY <1>1, <1>2

(***************************************************************************)
(* The counters say what is held, no sleeper is forgotten, and a destroyed *)
(* lock is in no use, in every reachable state.                            *)
(***************************************************************************)
THEOREM Invariance == ASSUME ReadersFit PROVE Spec => []IInv
  <1>1. Init => IInv
    BY InitIInv
  <1>2. IInv /\ [Next]_vars => IInv'
    BY NextIInv
  <1> QED
    BY <1>1, <1>2, PTL DEF Spec

\* The types, and with them that no counter leaves its range.
THEOREM TypeCorrect == ASSUME ReadersFit PROVE Spec => []TypeOK
  <1>1. IInv => TypeOK
    BY DEF IInv
  <1> QED
    BY <1>1, Invariance, PTL

\* active_readers, active_writers and waiting_writers are what they stand for
\* in every reachable state, so the assertion in pthread_rwlock_unlock holds.
THEOREM CountersCorrect == ASSUME ReadersFit PROVE Spec => []CountersMatchHolders
  <1>1. IInv => CountersMatchHolders
    BY DEF IInv
  <1> QED
    BY <1>1, Invariance, PTL

\* active_readers, an int8_t, is the number of read locks as long as no more
\* than 127 can be held at once.
THEOREM ReadersAreCounted == ASSUME ReadersFit PROVE Spec => []ReaderCountIsExact
  <1>1. CountersMatchHolders => ReaderCountIsExact
    BY DEF CountersMatchHolders
  <1> QED
    BY <1>1, CountersCorrect, PTL

\* Whatever is locked, tried, waited for and unlocked, one task at most has the
\* write lock, and none a read lock then.
THEOREM MutualExclusion == ASSUME ReadersFit PROVE Spec => []Exclusive
  <1>1. IInv => Exclusive
    BY DEF IInv
  <1> QED
    BY <1>1, Invariance, PTL

\* A task that sleeps un-notified is one that somebody will still wake.
THEOREM WakeupsAreNotLost == ASSUME ReadersFit PROVE Spec => []NoLostWakeup
  <1>1. IInv => NoLostWakeup
    BY DEF IInv
  <1> QED
    BY <1>1, Invariance, PTL

\* pthread_rwlock_destroy succeeds only on a lock without holders or waiters.
THEOREM DestroyIsSafe == ASSUME ReadersFit PROVE Spec => []DestroyedIsUnused
  <1>1. IInv => DestroyedIsUnused
    BY DEF IInv, Destroyed, Listed, Waiting, DestroyedIsUnused
  <1> QED
    BY <1>1, Invariance, PTL

-----------------------------------------------------------------------------
\* The refinement: each step is a step of RwLockSpec or leaves what is held
\* as it is.
LEMMA ReadIsAbstract ==
  ASSUME IInv, Zero, NEW t \in Task, active_writers = 0, GrantRead(t)
  PROVE  Abstract!AcquireRead(t)
  BY DEF Zero, GrantRead, Abstract!AcquireRead

LEMMA WriteIsAbstract ==
  ASSUME IInv, Zero, NEW t \in Task, Free, GrantWrite(t)
  PROVE  Abstract!AcquireWrite(t)
  BY DEF Zero, Free, GrantWrite, Abstract!AcquireWrite

LEMMA UnlockIsAbstract ==
  ASSUME IInv, NEW t \in Task, Unlock(t)
  PROVE  Abstract!ReleaseRead(t) \/ Abstract!ReleaseWrite(t)
  <1>1. CASE t \in writing
    BY <1>1 DEF Unlock, Abstract!ReleaseWrite
  <1>2. CASE t \notin writing
    BY <1>2 DEF Unlock, IInv, Callers, MayUnlock, Abstract!ReleaseRead
  <1> QED
    BY <1>1, <1>2

LEMMA StepIsAbstract ==
  ASSUME ReadersFit, IInv, [Next]_vars
  PROVE  [Abstract!Next]_<<hold, writing>>
  <1> USE DEF held
  <1>z. Zero
    BY Zeros
  <1>1. CASE UNCHANGED vars
    BY <1>1 DEF vars
  <1>2. CASE Next
    <2> PICK t \in Task : CallLock(t) \/ CallUnlock(t) \/ Destroy(t) \/ RwLockInit(t)
                          \/ Take(t) \/ Continue(t)
      BY <1>2 DEF Next
    <2>1. CASE CallLock(t) \/ CallUnlock(t) \/ Destroy(t) \/ RwLockInit(t) \/ Take(t)
      BY <2>1 DEF CallLock, CallUnlock, Destroy, RwLockInit, Take
    <2>2. CASE Wake(t) \/ RdLockWaits(t) \/ WrLockWaits(t)
      BY <2>2 DEF Wake, RdLockWaits, WrLockWaits, CondWait
    <2>3. CASE RdLockGranted(t) \/ TryRdLock(t)
      BY <1>z, <2>3, ReadIsAbstract
      DEF RdLockGranted, ReaderMayEnter, TryRdLock, Abstract!Next
    <2>4. CASE WrLockGranted(t) \/ TryWrLock(t)
      BY <1>z, <2>4, WriteIsAbstract
      DEF WrLockGranted, TryWrLock, TryWriterMayEnter, Abstract!Next
    <2>5. CASE Unlock(t)
      BY <2>5, UnlockIsAbstract DEF Abstract!Next
    <2> QED
      BY <2>1, <2>2, <2>3, <2>4, <2>5 DEF Continue
  <1> QED
    BY <1>1, <1>2

(***************************************************************************)
(* The three counters and one condition variable implement a reader-writer *)
(* lock: every behaviour of the code is one that RwLockSpec allows.        *)
(***************************************************************************)
THEOREM Refinement == ASSUME ReadersFit PROVE Spec => ImplementsRwLock
  <1>1. Init => Abstract!Init
    BY DEF Init, Abstract!Init
  <1>2. IInv /\ [Next]_vars => [Abstract!Next]_<<hold, writing>>
    BY StepIsAbstract
  <1> QED
    BY <1>1, <1>2, Invariance, PTL DEF Spec, ImplementsRwLock, Abstract!Spec
=============================================================================
