---------------------------- MODULE PthreadMutex ----------------------------
(***************************************************************************)
(* Mutexes of pico-std/c/esp-idf/src/pthread.c: one pthread_mutex_t and    *)
(* the tasks that share it.                                                *)
(*                                                                         *)
(* A pthread_mutex_t is PTHREAD_MUTEX_INITIALIZER (Static here) or the     *)
(* address of an esp_pthread_mutex_t; the first call that locks a static   *)
(* one replaces it.  The FreeRTOS semaphore inside belongs to the block:   *)
(* its holder and how often it was taken are fields of it here.  A test    *)
(* whether the caller is the holder cannot be overtaken by another task,   *)
(* so it is one step with the take or the give that follows it.            *)
(*                                                                         *)
(* The users are those a mutex is for: they unlock what they hold (or are  *)
(* told EPERM), never lock a normal mutex twice without a time-out, and    *)
(* destroy it when no call on it is in progress.  It may then be held: the *)
(* code tells.                                                             *)
(***************************************************************************)
EXTENDS Naturals, FiniteSets

CONSTANTS
  Task, NoTask,
  Mux, Static,    \* addresses of esp_pthread_mutex_t, and the initializer
  MaxDepth,       \* how often a task locks a recursive mutex it holds
  DestroysOwn     \* whether a task may destroy a mutex it holds itself

ASSUME MutexAssumption ==
  /\ NoTask \notin Task /\ Static \notin Mux
  /\ MaxDepth \in Nat \ {0} /\ DestroysOwn \in BOOLEAN

VARIABLES
  mutex,  \* the pthread_mutex_t
  mux,    \* the blocks: allocated or not, type, holder, recursion count
  pc,     \* where each task is
  ptr,    \* the block its call works on
  held    \* how many times each task holds the mutex, by what it was told

vars == <<mutex, mux, pc, ptr, held>>

Type == {"normal", "recursive", "errorcheck"}
Locks == {"lock", "timedlock", "trylock"}

\* A task's position: its call, and the step of it.
Out == [call |-> "none", at |-> "out"]
PC ==
  [call : Locks, at : {"test", "init", "read", "take"}]
    \cup [call : {"destroy"}, at : {"take", "give", "free"}] \cup {Out}

Block(live, type) == [live |-> live, type |-> type, holder |-> NoTask, count |-> 0]

Init ==
  /\ mutex = Static
  /\ mux = [m \in Mux |-> Block(FALSE, "normal")]
  /\ pc = [t \in Task |-> Out]
  /\ ptr = [t \in Task |-> Static]
  /\ held = [t \in Task |-> 0]

At(t, p) == pc[t].at = p
Goto(t, p) == pc' = [pc EXCEPT ![t].at = p]
Return(t) == pc' = [pc EXCEPT ![t] = Out] /\ ptr' = [ptr EXCEPT ![t] = Static]

Live == {m \in Mux : mux[m].live}
Usable == mutex \in Live \cup {Static}
Initialized == mutex \in Live
Idle == \A t \in Task : pc[t] = Out

-----------------------------------------------------------------------------
\* Its users' choices.

\* A normal mutex is not waited for by its holder, a recursive one is locked
\* up to MaxDepth times.
MayLock(t, call) ==
  /\ Usable /\ \A u \in Task : pc[u].call # "destroy"
  /\ held[t] > 0 /\ mux[mutex].type = "normal" => call # "lock"
  /\ held[t] > 0 /\ mux[mutex].type = "recursive" => held[t] < MaxDepth

MayUnlock(t) == Initialized /\ (held[t] > 0 \/ mux[mutex].type # "normal")

MayDestroy(t) == Idle /\ Usable /\ (held[t] = 0 \/ DestroysOwn)

CallLock(t) == \E call \in Locks :
  /\ pc[t] = Out /\ MayLock(t, call)
  /\ pc' = [pc EXCEPT ![t] = [call |-> call, at |-> "test"]]
  /\ UNCHANGED <<mutex, mux, ptr, held>>

-----------------------------------------------------------------------------
\* A fresh block, with a semaphore nobody holds.
NewMux(m, type) ==
  /\ ~ mux[m].live
  /\ mutex' = m
  /\ mux' = [mux EXCEPT ![m] = Block(TRUE, type)]

\* pthread_mutex_init; a failed allocation changes nothing.
MutexInit(t) ==
  /\ Idle /\ ~ Initialized
  /\ \E m \in Mux, type \in Type : NewMux(m, type)
  /\ UNCHANGED <<pc, ptr, held>>

\* The two tests of pthread_mutex_init_if_static, the second inside the
\* critical section with what depends on it.
TestStatic(t) ==
  /\ At(t, "test")
  /\ Goto(t, IF mutex = Static THEN "init" ELSE "read")
  /\ UNCHANGED <<mutex, mux, ptr, held>>

\* Variant: no second test.
InitUnchecked(t) ==
  /\ At(t, "init")
  /\ \E m \in Mux : NewMux(m, "normal")
  /\ Goto(t, "read")
  /\ UNCHANGED <<ptr, held>>

InitIfStatic(t) ==
  /\ At(t, "init")
  /\ IF mutex = Static THEN \E m \in Mux : NewMux(m, "normal")
                       ELSE UNCHANGED <<mutex, mux>>
  /\ Goto(t, "read")
  /\ UNCHANGED <<ptr, held>>

\* ENOMEM.
InitFails(t) ==
  /\ At(t, "init") /\ mutex = Static
  /\ Return(t)
  /\ UNCHANGED <<mutex, mux, held>>

\* The pointer is passed to pthread_mutex_lock_internal.
ReadMutex(t) ==
  /\ At(t, "read")
  /\ ptr' = [ptr EXCEPT ![t] = mutex]
  /\ Goto(t, "take")
  /\ UNCHANGED <<mutex, mux, held>>

-----------------------------------------------------------------------------
\* pthread_mutex_lock_internal.

\* Variant: the holder of an ERRORCHECK mutex is not told.
NeverDeadlk(m, t) == FALSE

Deadlk(m, t) == mux[m].type = "errorcheck" /\ mux[m].holder = t

\* Whether xSemaphoreTake or xSemaphoreTakeRecursive succeeds.
Takeable(m, t) ==
  \/ mux[m].holder = NoTask
  \/ mux[m].type = "recursive" /\ mux[m].holder = t

Take(m, t) ==
  mux' = [mux EXCEPT ![m] = [mux[m] EXCEPT !.holder = t, !.count = mux[m].count + 1]]

LockTaken(t) ==
  /\ At(t, "take") /\ pc[t].call \in Locks /\ Takeable(ptr[t], t)
  /\ Take(ptr[t], t)
  /\ held' = [held EXCEPT ![t] = held[t] + 1]
  /\ Return(t)
  /\ UNCHANGED mutex

\* EDEADLK, or EBUSY when there is no time (left); pthread_mutex_timedlock
\* makes it ETIMEDOUT.
LockRefused(t) ==
  /\ At(t, "take") /\ pc[t].call \in Locks
  /\ \/ Deadlk(ptr[t], t)
     \/ pc[t].call # "lock" /\ ~ Takeable(ptr[t], t)
  /\ Return(t)
  /\ UNCHANGED <<mutex, mux, held>>

-----------------------------------------------------------------------------
\* Variant: the first give frees a recursive mutex.
GiveAll(m) == mux' = [mux EXCEPT ![m].holder = NoTask, ![m].count = 0]

Give(m) ==
  mux' = [mux EXCEPT ![m] = [mux[m] EXCEPT
    !.holder = IF mux[m].count = 1 THEN NoTask ELSE mux[m].holder,
    !.count = mux[m].count - 1]]

\* Variant: nobody is refused.
UnlockUnowned(t) ==
  /\ pc[t] = Out /\ MayUnlock(t)
  /\ Give(mutex)
  /\ held' = [held EXCEPT ![t] = held[t] - 1]
  /\ UNCHANGED <<mutex, pc, ptr>>

\* EPERM leaves everything as it is: a stutter.
Unlock(t) ==
  /\ pc[t] = Out /\ MayUnlock(t)
  /\ mux[mutex].type # "normal" => mux[mutex].holder = t
  /\ Give(mutex)
  /\ held' = [held EXCEPT ![t] = held[t] - 1]
  /\ UNCHANGED <<mutex, pc, ptr>>

-----------------------------------------------------------------------------
\* pthread_mutex_destroy; one that was never initialised needs nothing.
CallDestroy(t) ==
  /\ pc[t] = Out /\ MayDestroy(t) /\ mutex # Static
  /\ ptr' = [ptr EXCEPT ![t] = mutex]
  /\ pc' = [pc EXCEPT ![t] = [call |-> "destroy", at |-> "take"]]
  /\ UNCHANGED <<mutex, mux, held>>

\* Variant: the answer of the test is not looked at.
DestroyAnyway(t) ==
  /\ At(t, "take") /\ pc[t].call = "destroy" /\ ~ Takeable(ptr[t], t)
  /\ Goto(t, "free")
  /\ UNCHANGED <<mutex, mux, ptr, held>>

\* EBUSY.
DestroyBusy(t) ==
  /\ At(t, "take") /\ pc[t].call = "destroy"
  /\ ~ Deadlk(ptr[t], t) /\ ~ Takeable(ptr[t], t)
  /\ Return(t)
  /\ UNCHANGED <<mutex, mux, held>>

\* Any other answer passes for success, EDEADLK too.
DestroyTake(t) ==
  /\ At(t, "take") /\ pc[t].call = "destroy"
  /\ IF Deadlk(ptr[t], t) THEN UNCHANGED mux
                          ELSE Takeable(ptr[t], t) /\ Take(ptr[t], t)
  /\ Goto(t, "give")
  /\ UNCHANGED <<mutex, ptr, held>>

DestroyGive(t) ==
  /\ At(t, "give")
  /\ Give(ptr[t])
  /\ Goto(t, "free")
  /\ UNCHANGED <<mutex, ptr, held>>

\* vSemaphoreDelete and free; the pthread_mutex_t keeps the address.
DestroyFree(t) ==
  /\ At(t, "free")
  /\ mux' = [mux EXCEPT ![ptr[t]] = Block(FALSE, "normal")]
  /\ Return(t)
  /\ UNCHANGED <<mutex, held>>

-----------------------------------------------------------------------------
Continue(t) ==
  \/ TestStatic(t) \/ InitIfStatic(t) \/ ReadMutex(t)
  \/ LockTaken(t) \/ LockRefused(t)
  \/ DestroyBusy(t) \/ DestroyTake(t) \/ DestroyGive(t) \/ DestroyFree(t)

Next == \E t \in Task :
  \/ CallLock(t) \/ CallDestroy(t) \/ MutexInit(t) \/ InitFails(t)
  \/ Unlock(t)
  \/ Continue(t)

Spec == Init /\ [][Next]_vars

Release(t) == held[t] = 1 /\ Unlock(t)

\* The scheduler runs every ready task, a mutex that keeps being given is
\* eventually obtained, and its users do not keep it for ever.
FairSpec == Spec /\ \A t \in Task :
  SF_vars(Continue(t)) /\ WF_vars(Unlock(t)) /\ SF_vars(Release(t))

-----------------------------------------------------------------------------
\* Every variable keeps its type.
TypeOK ==
  /\ mutex \in Mux \cup {Static}
  /\ mux \in [Mux -> [live : BOOLEAN, type : Type,
                      holder : Task \cup {NoTask},
                      count : 0..MaxDepth + 1]]
  /\ pc \in [Task -> PC]
  /\ ptr \in [Task -> Mux \cup {Static}]
  /\ held \in [Task -> 0..MaxDepth]

(***************************************************************************)
(* A static mutex that several tasks lock for the first time at once gets  *)
(* one block, and every call that is past the test works on that block: no *)
(* block leaks and nobody locks one that was replaced or freed.            *)
(***************************************************************************)
OneBlock ==
  /\ Live \subseteq {mutex}
  /\ \A t \in Task : pc[t].at \in {"take", "give", "free"} =>
       ptr[t] = mutex /\ Initialized

(***************************************************************************)
(* The semaphore's holder and count are what the tasks were told by the    *)
(* lock and unlock calls, except while a destroy has it for its test.      *)
(***************************************************************************)
SemaphoreMatchesHolds ==
  Initialized /\ (\A u \in Task : pc[u].at # "give") =>
    \A t \in Task : held[t] = IF mux[mutex].holder = t THEN mux[mutex].count ELSE 0

\* The mutex keeps the promise of MutexSpec, destruction included: a mutex
\* that another task holds is refused with EBUSY.
Abstract == INSTANCE MutexSpec WITH alive <- Usable
ImplementsMutex == Abstract!Spec

\* A call that waits for the mutex returns: a holder that locks again, in
\* particular, is told EDEADLK or let in, and does not wait for itself.
LockReturns ==
  \A t \in Task : pc[t].call = "lock" ~> pc[t].call # "lock"

(***************************************************************************)
(* What pthread_mutex_destroy's test is for, by its comment "check if mux  *)
(* is busy": a mutex somebody holds is not freed.                          *)
(***************************************************************************)
HeldIsNotFreed == \A t \in Task : held[t] > 0 => Usable
=============================================================================
