------------------------------- MODULE RwLock -------------------------------
(***************************************************************************)
(* Reader-writer locks of pico-std/c/esp-idf/src/pthread_rwlock.c: three   *)
(* counters under a mutex, and one condition variable for both kinds of    *)
(* waiters, which is only ever broadcast.                                  *)
(*                                                                         *)
(* The condition variable appears by what CondVar shows of it: a wait puts *)
(* the task on the list and releases the mutex as one step as far as the   *)
(* holders of the mutex can tell, and a broadcast wakes all that are on    *)
(* the list.  A locked section is two steps, Take and the section's body.  *)
(*                                                                         *)
(* active_readers is an int8_t and wraps round.  The writers' counters     *)
(* count tasks, of which there are far fewer than 256.                     *)
(***************************************************************************)
EXTENDS Integers, FiniteSets

CONSTANTS Task, NoTask,
          MaxHold,    \* bound: read locks a task holds at a time
          MaxCalls    \* bound: lock calls each task makes

ASSUME TasksAreFinite ==
  /\ IsFiniteSet(Task) /\ NoTask \notin Task
  /\ MaxHold \in Nat /\ MaxCalls \in Nat

VARIABLES
  active_readers, active_writers, waiting_writers,
  resource,         \* holder of resource_mutex
  waiters, woken,   \* tasks on the list of cv, and those of them notified
  alive,            \* the lock exists
  pc,
  calls,            \* lock calls each task has made
  hold, writing     \* what the callers hold, as RwLockSpec has it

counters == <<active_readers, active_writers, waiting_writers>>
held == <<hold, writing>>
vars == <<counters, resource, waiters, woken, alive, pc, calls, held>>

-----------------------------------------------------------------------------
Int8(x) == ((x + 128) % 256) - 128

Locking == {"rdlock", "wrlock", "unlock", "rdagain", "wragain", "tryrd", "trywr"}
Waiting == {"rdwait", "wrwait"}

Init ==
  /\ active_readers = 0 /\ active_writers = 0 /\ waiting_writers = 0
  /\ resource = NoTask
  /\ waiters = {} /\ woken = {}
  /\ alive = TRUE
  /\ pc = [t \in Task |-> "run"]
  /\ calls = [t \in Task |-> 0]
  /\ hold = [t \in Task |-> 0] /\ writing = {}

Goto(t, p) == pc' = [pc EXCEPT ![t] = p]

\* The users of the lock: a writer makes no further lock call, nor does a
\* reader call for the write lock, and only a holder unlocks.
MayRead(t)   == t \notin writing /\ hold[t] < MaxHold
MayWrite(t)  == t \notin writing /\ hold[t] = 0
MayUnlock(t) == t \in writing \/ hold[t] > 0

CallLock(t) ==
  /\ pc[t] = "run" /\ alive /\ calls[t] < MaxCalls
  /\ calls' = [calls EXCEPT ![t] = @ + 1]
  /\ \/ MayRead(t)  /\ Goto(t, "rdlock") /\ UNCHANGED resource
     \/ MayWrite(t) /\ Goto(t, "wrlock") /\ UNCHANGED resource
     \* The try calls return EBUSY, unless the mutex is free.
     \/ MayRead(t)  /\ resource = NoTask /\ resource' = t /\ Goto(t, "tryrd")
     \/ MayWrite(t) /\ resource = NoTask /\ resource' = t /\ Goto(t, "trywr")
  /\ UNCHANGED <<counters, waiters, woken, alive, held>>

CallUnlock(t) ==
  /\ pc[t] = "run" /\ MayUnlock(t)
  /\ Goto(t, "unlock")
  /\ UNCHANGED <<counters, resource, waiters, woken, alive, calls, held>>

\* pthread_mutex_lock(&esp_rwlock->resource_mutex).
Take(t) ==
  /\ pc[t] \in Locking
  /\ resource = NoTask
  /\ resource' = t
  /\ UNCHANGED <<counters, waiters, woken, alive, pc, calls, held>>

\* The end of a section that grants a lock or not, and of one that waits.
Leave(t) ==
  /\ resource = t /\ resource' = NoTask
  /\ Goto(t, "run")
  /\ UNCHANGED <<waiters, woken, alive, calls>>

CondWait(t, p) ==
  /\ resource = t /\ resource' = NoTask
  /\ waiters' = waiters \cup {t}
  /\ Goto(t, p)
  /\ UNCHANGED <<woken, alive, calls, held>>

\* Variant: the notification outlives the record on the list.
UnlistOnly(t) == waiters' = waiters \ {t} /\ UNCHANGED woken

Unlist(t) == waiters' = waiters \ {t} /\ woken' = woken \ {t}

\* The semaphore is taken and the task takes itself off the list.
Wake(t) ==
  /\ pc[t] \in Waiting /\ t \in woken
  /\ Unlist(t)
  /\ Goto(t, IF pc[t] = "rdwait" THEN "rdagain" ELSE "wragain")
  /\ UNCHANGED <<counters, resource, alive, calls, held>>

-----------------------------------------------------------------------------
GrantRead(t) ==
  /\ active_readers' = Int8(active_readers + 1)
  /\ hold' = [hold EXCEPT ![t] = @ + 1]
  /\ UNCHANGED <<active_writers, writing>>

GrantWrite(t) ==
  /\ active_writers' = active_writers + 1
  /\ writing' = writing \cup {t}
  /\ UNCHANGED <<active_readers, hold>>

\* A reader is let in when no one writes, even if a writer waits; once it has
\* had to wait it also lets waiting writers go first.
ReaderMayEnter(t) ==
  /\ active_writers = 0
  /\ pc[t] = "rdagain" => waiting_writers = 0

Free == active_readers <= 0 /\ active_writers = 0

RdLockGranted(t) ==
  /\ pc[t] \in {"rdlock", "rdagain"} /\ ReaderMayEnter(t)
  /\ GrantRead(t)
  /\ Leave(t)
  /\ UNCHANGED waiting_writers

RdLockWaits(t) ==
  /\ pc[t] \in {"rdlock", "rdagain"} /\ ~ ReaderMayEnter(t)
  /\ CondWait(t, "rdwait")
  /\ UNCHANGED counters

\* Variant: a writer that gets the lock stays counted as waiting.
StaysCounted(t) == UNCHANGED waiting_writers

\* waiting_writers counts a writer from its first test to its last.
CountOut(t) ==
  waiting_writers' = IF pc[t] = "wragain" THEN waiting_writers - 1
                                          ELSE waiting_writers

WrLockGranted(t) ==
  /\ pc[t] \in {"wrlock", "wragain"} /\ Free
  /\ GrantWrite(t)
  /\ CountOut(t)
  /\ Leave(t)

WrLockWaits(t) ==
  /\ pc[t] \in {"wrlock", "wragain"} /\ ~ Free
  /\ waiting_writers' = IF pc[t] = "wrlock" THEN waiting_writers + 1
                                            ELSE waiting_writers
  /\ CondWait(t, "wrwait")
  /\ UNCHANGED <<active_readers, active_writers>>

TryRdLock(t) ==
  /\ pc[t] = "tryrd"
  /\ IF active_writers = 0 THEN GrantRead(t)
                           ELSE UNCHANGED <<active_readers, active_writers, held>>
  /\ Leave(t)
  /\ UNCHANGED waiting_writers

\* Variant: only another writer holds the caller back.
TryDespiteReaders == active_writers = 0

\* "to avoid skipping the queue".
TryWriterMayEnter == Free /\ waiting_writers = 0

TryWrLock(t) ==
  /\ pc[t] = "trywr"
  /\ IF TryWriterMayEnter THEN GrantWrite(t)
                          ELSE UNCHANGED <<active_readers, active_writers, held>>
  /\ Leave(t)
  /\ UNCHANGED waiting_writers

-----------------------------------------------------------------------------
\* Variant: the last reader wakes no one.
ReaderWakesNone == FALSE

\* Variant: a signal in the place of the broadcast.
WakeOne == \/ waiters = {} /\ UNCHANGED woken
           \/ \E w \in waiters : woken' = woken \cup {w}

Broadcast == woken' = waiters

\* What the unlocking reader tests to broadcast, having counted itself out.
LastReader == Int8(active_readers - 1) = 0

\* The caller is taken for a reader when there are any readers.
UnlockReader(t) ==
  /\ active_readers > 0
  /\ active_readers' = Int8(active_readers - 1)
  /\ IF LastReader THEN Broadcast ELSE UNCHANGED woken
  /\ UNCHANGED active_writers

UnlockWriter(t) ==
  /\ ~ active_readers > 0
  /\ active_writers' = 0
  /\ Broadcast
  /\ UNCHANGED active_readers

Unlock(t) ==
  /\ pc[t] = "unlock" /\ resource = t
  /\ UnlockReader(t) \/ UnlockWriter(t)
  /\ IF t \in writing
     THEN writing' = writing \ {t} /\ UNCHANGED hold
     ELSE hold' = [hold EXCEPT ![t] = @ - 1] /\ UNCHANGED writing
  /\ resource' = NoTask
  /\ Goto(t, "run")
  /\ UNCHANGED <<waiting_writers, waiters, alive, calls>>

\* Variant: readers are not asked for.
NoWriters == active_writers = 0 /\ waiting_writers = 0

Unused == active_readers = 0 /\ active_writers = 0 /\ waiting_writers = 0

\* pthread_rwlock_destroy, when no call is in progress; EBUSY otherwise.
Destroy(t) ==
  /\ alive /\ \A u \in Task : pc[u] = "run"
  /\ Unused
  /\ alive' = FALSE
  /\ UNCHANGED <<counters, resource, waiters, woken, pc, calls, held>>

\* pthread_rwlock_init, by its caller or on the first use of a static lock.
RwLockInit(t) ==
  /\ ~ alive /\ pc[t] = "run"
  /\ alive' = TRUE
  /\ active_readers' = 0 /\ active_writers' = 0 /\ waiting_writers' = 0
  /\ UNCHANGED <<resource, waiters, woken, pc, calls, held>>

-----------------------------------------------------------------------------
\* What a task does of itself once in a call.
Continue(t) ==
  \/ Wake(t) \/ RdLockGranted(t) \/ RdLockWaits(t) \/ WrLockGranted(t)
  \/ WrLockWaits(t) \/ TryRdLock(t) \/ TryWrLock(t) \/ Unlock(t)

Next == \E t \in Task :
  \/ CallLock(t) \/ CallUnlock(t) \/ Destroy(t) \/ RwLockInit(t)
  \/ Take(t) \/ Continue(t)

Spec == Init /\ [][Next]_vars

\* Every ready task runs, a mutex that keeps being released is obtained, and
\* every holder unlocks in the end.
Fairness == \A t \in Task :
  WF_vars(Continue(t)) /\ SF_vars(Take(t)) /\ WF_vars(CallUnlock(t))

FairSpec == Spec /\ Fairness

-----------------------------------------------------------------------------
\* Every variable keeps its type.
TypeOK ==
  /\ active_readers \in -128 .. 127
  /\ active_writers \in Nat /\ waiting_writers \in Int
  /\ resource \in Task \cup {NoTask}
  /\ waiters \subseteq Task /\ woken \subseteq waiters
  /\ alive \in BOOLEAN
  /\ pc \in [Task -> Locking \cup Waiting \cup {"run"}]
  /\ calls \in [Task -> 0 .. MaxCalls]
  /\ hold \in [Task -> 0 .. MaxHold] /\ writing \subseteq Task

\* One token for each read lock held.
ReadTokens == {k \in Task \X (1 .. MaxHold) : k[2] <= hold[k[1]]}

\* What the tasks may hold at once fits in an int8_t.
ReadersFit == Cardinality(Task \X (1 .. MaxHold)) <= 127

\* active_readers is the "Number of current readers holding this lock".
ReaderCountIsExact == active_readers = Cardinality(ReadTokens)

(***************************************************************************)
(* The counters the next caller decides by agree with what is held, over   *)
(* every interleaving of waits, wake-ups, try calls and unlocks; so the    *)
(* assertion of pthread_rwlock_unlock holds, and it takes the branch of    *)
(* the kind of lock its caller holds.                                      *)
(***************************************************************************)
CountersMatchHolders ==
  /\ ReaderCountIsExact
  /\ active_writers = Cardinality(writing)
  /\ waiting_writers = Cardinality({t \in Task : pc[t] \in {"wrwait", "wragain"}})
  /\ ~ (active_readers > 0 /\ active_writers > 0)

(***************************************************************************)
(* No lost wake-up: a task sleeps un-notified only while some task that    *)
(* holds the lock, or a writer that waits, is yet to broadcast: a writer   *)
(* only while the lock is held, a reader also while a writer waits for it. *)
(***************************************************************************)
NoLostWakeup ==
  \A t \in waiters \ woken :
    \/ active_readers > 0 \/ active_writers > 0
    \/ pc[t] = "rdwait" /\ waiting_writers > 0

\* A lock that is destroyed is held by no one and awaited by no one.
DestroyedIsUnused ==
  ~ alive => waiters = {} /\ writing = {} /\ \A t \in Task : hold[t] = 0

Abstract == INSTANCE RwLockSpec

\* The lock is a reader-writer lock: each grant is one RwLockSpec allows.
ImplementsRwLock == Abstract!Spec

\* Every call returns, if every holder unlocks and calls are finitely many.
CallsReturn == \A t \in Task : pc[t] # "run" ~> pc[t] = "run"
=============================================================================
