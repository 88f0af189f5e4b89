------------------------ MODULE PthreadMutex_proofs ------------------------
(***************************************************************************)
(* Proofs for PthreadMutex: one block per mutex, a semaphore that agrees   *)
(* with what the tasks were told, and the promise of MutexSpec, for any    *)
(* sets of tasks and blocks.  No task destroys a mutex it holds: the code  *)
(* does not notice, as the run mutex_destroy shows.                        *)
(***************************************************************************)
EXTENDS PthreadMutex, TLAPS

\* The users' part of the contract.
NotOwn == DestroysOwn = FALSE

\* What a call in progress relies on.
Calls == \A t \in Task :
  /\ pc[t].call \in Locks => Usable
  /\ pc[t].at = "read" => Initialized
  /\ pc[t].call \in Locks /\ Initialized =>
       (mux[mutex].type = "recursive" => held[t] < MaxDepth)

\* A destroyer does not hold the mutex as a user, is alone in it, and has the
\* semaphore once between its take and its give.
Destroying == \A t \in Task : pc[t].call = "destroy" =>
  /\ held[t] = 0
  /\ \A u \in Task : u # t => pc[u] = Out
  /\ pc[t].at = "give" => mux[mutex].holder = t /\ mux[mutex].count = 1
  /\ pc[t].at = "free" => mux[mutex].holder = NoTask

\* The semaphore against what its users were told, at any moment.
Holds ==
  /\ Initialized =>
       /\ mux[mutex].holder = NoTask <=> mux[mutex].count = 0
       /\ \A t \in Task :
            held[t] = IF mux[mutex].holder = t /\ pc[t].at # "give"
                      THEN mux[mutex].count ELSE 0
  /\ ~ Initialized => \A t \in Task : held[t] = 0

IInv == TypeOK /\ OneBlock /\ Calls /\ Destroying /\ Holds

\* The calls a position may belong to.
PcOk == \A t \in Task :
  /\ pc[t].call \in Locks \cup {"destroy", "none"}
  /\ pc[t].call = "none" <=> pc[t] = Out
  /\ pc[t].call = "none" <=> pc[t].at = "out"
  /\ pc[t].call \in Locks => pc[t].at \in {"test", "init", "read", "take"}
  /\ pc[t].call = "destroy" => pc[t].at \in {"take", "give", "free"}

\* A take and a give change the block they are about, and only its holder and
\* count.
Blocks == [live : BOOLEAN, type : Type, holder : Task \cup {NoTask},
           count : 0..MaxDepth + 1]

Changed(m, h, c) ==
  /\ mux'[m].holder = h /\ mux'[m].count = c
  /\ mux'[m].live = mux[m].live /\ mux'[m].type = mux[m].type
  /\ \A n \in Mux : n # m => mux'[n] = mux[n]
  /\ Live' = Live

\* The form in which Take and Give write a block.
LEMMA BlockChanges ==
  ASSUME mux \in [Mux -> Blocks], NEW m \in Mux, NEW h \in Task \cup {NoTask},
         NEW c \in 0..MaxDepth + 1,
         mux' = [mux EXCEPT ![m] = [mux[m] EXCEPT !.holder = h, !.count = c]]
  PROVE  mux' \in [Mux -> Blocks] /\ Changed(m, h, c)
<1>1. PICK r \in Blocks : r = mux[m]
  OBVIOUS
<1> DEFINE b == [r EXCEPT !.holder = h, !.count = c]
<1>2. b \in Blocks
  BY DEF Blocks
<1>3. b.holder = h
  BY DEF Blocks
<1>4. b.count = c
  BY DEF Blocks
<1>5. b.live = r.live
  BY DEF Blocks
<1>6. b.type = r.type
  BY DEF Blocks
<1>7. mux' = [mux EXCEPT ![m] = b]
  BY <1>1
<1> HIDE DEF b
<1> QED
  BY <1>1, <1>2, <1>3, <1>4, <1>5, <1>6, <1>7 DEF Changed, Live

\* A take makes t the holder and adds one to the count.
LEMMA TakeChanges ==
  ASSUME mux \in [Mux -> Blocks], NEW m \in Mux, NEW t \in Task, Take(m, t),
         mux[m].count <= MaxDepth
  PROVE  mux' \in [Mux -> Blocks] /\ Changed(m, t, mux[m].count + 1)
<1>1. mux[m].count + 1 \in 0..MaxDepth + 1
  BY MutexAssumption DEF Blocks
<1> QED
  BY <1>1, BlockChanges DEF Take

\* A give takes one from the count, and the last one frees the semaphore.
LEMMA GiveChanges ==
  ASSUME mux \in [Mux -> Blocks], NEW m \in Mux, Give(m), mux[m].count > 0
  PROVE  /\ mux' \in [Mux -> Blocks]
         /\ Changed(m, IF mux[m].count = 1 THEN NoTask ELSE mux[m].holder,
                    mux[m].count - 1)
<1> DEFINE h == IF mux[m].count = 1 THEN NoTask ELSE mux[m].holder
<1>1. mux[m].count - 1 \in 0..MaxDepth + 1 /\ h \in Task \cup {NoTask}
  BY MutexAssumption DEF Blocks
<1>2. mux' = [mux EXCEPT
        ![m] = [mux[m] EXCEPT !.holder = h, !.count = mux[m].count - 1]]
  BY DEF Give
<1> HIDE DEF h
<1>3. mux' \in [Mux -> Blocks] /\ Changed(m, h, mux[m].count - 1)
  BY <1>1, <1>2, BlockChanges
<1> QED
  BY <1>3 DEF h

\* Every call is at one of its own steps.
LEMMA PcShape == ASSUME TypeOK PROVE PcOk
  BY DEF TypeOK, PC, Out, Locks, PcOk

-----------------------------------------------------------------------------

\* CallLock preserves the invariant.
LEMMA CallLockStep ==
  ASSUME NEW t \in Task, NotOwn, IInv, CallLock(t)
  PROVE  IInv'
<1> USE MutexAssumption DEF IInv, NotOwn
<1>0. PcOk
  BY PcShape
<1>1. TypeOK'
  BY DEF CallLock, TypeOK, PC
<1>2. OneBlock'
  BY DEF CallLock, Initialized, Live, OneBlock
<1>3. Calls'
  BY DEF CallLock, MayLock, Usable, Initialized, Live, TypeOK, Calls
<1>4. Destroying'
  BY DEF CallLock, MayLock, Locks, Destroying
<1>5. Holds'
  BY <1>0 DEF CallLock, Initialized, Live, PcOk, Holds
<1> QED
  BY <1>1, <1>2, <1>3, <1>4, <1>5

\* CallDestroy preserves the invariant.
LEMMA CallDestroyStep ==
  ASSUME NEW t \in Task, NotOwn, IInv, CallDestroy(t)
  PROVE  IInv'
<1> USE MutexAssumption DEF IInv, NotOwn
<1>0. PcOk
  BY PcShape
<1>1. TypeOK'
  BY DEF CallDestroy, TypeOK, PC
<1>2. OneBlock'
  BY DEF CallDestroy, MayDestroy, Usable, Initialized, Live, TypeOK, OneBlock
<1>3. Calls'
  BY DEF CallDestroy, MayDestroy, Usable, Initialized, Live, Calls
<1>4. Destroying'
  BY <1>0 DEF CallDestroy, MayDestroy, Idle, PcOk, Destroying
<1>5. Holds'
  BY <1>0 DEF CallDestroy, Initialized, Live, PcOk, Holds
<1> QED
  BY <1>1, <1>2, <1>3, <1>4, <1>5

\* MutexInit preserves the invariant.
LEMMA MutexInitStep ==
  ASSUME NEW t \in Task, NotOwn, IInv, MutexInit(t)
  PROVE  IInv'
<1> USE MutexAssumption DEF IInv, NotOwn
<1>0. PcOk
  BY PcShape
<1>1. TypeOK'
  BY DEF MutexInit, NewMux, Block, TypeOK
<1>2. OneBlock'
  BY DEF MutexInit, Initialized, Live, NewMux, Block, OneBlock
<1>3. Calls'
  BY <1>0 DEF MutexInit, Idle, Block, PcOk, Calls
<1>4. Destroying'
  BY <1>0 DEF MutexInit, Idle, PcOk, Destroying
<1>5. Holds'
  BY DEF MutexInit, Initialized, Live, NewMux, Block, Holds
<1> QED
  BY <1>1, <1>2, <1>3, <1>4, <1>5

\* InitFails preserves the invariant.
LEMMA InitFailsStep ==
  ASSUME NEW t \in Task, NotOwn, IInv, InitFails(t)
  PROVE  IInv'
<1> USE MutexAssumption DEF IInv, NotOwn
<1>0. PcOk
  BY PcShape
<1>1. TypeOK'
  BY DEF InitFails, Return, TypeOK, PC
<1>2. OneBlock'
  BY DEF InitFails, Return, Initialized, Live, Out, OneBlock
<1>3. Calls'
  BY DEF InitFails, Return, Usable, Initialized, Live, Out, Calls
<1>4. Destroying'
  BY DEF InitFails, Return, Out, Destroying
<1>5. Holds'
  BY DEF InitFails, Initialized, Live, Holds
<1> QED
  BY <1>1, <1>2, <1>3, <1>4, <1>5

\* Unlock preserves the invariant.
LEMMA UnlockStep ==
  ASSUME NEW t \in Task, NotOwn, IInv, Unlock(t)
  PROVE  IInv'
<1> USE MutexAssumption DEF IInv, NotOwn
<1>0. PcOk
  BY PcShape
<1>t. mutex \in Mux /\ mux[mutex].count > 0 /\ held[t] > 0 /\ held[t] \in 1..MaxDepth
        /\ mux[mutex].holder = t
  BY DEF Unlock, MayUnlock, Holds, Initialized, Live, TypeOK, Out
<1>g. /\ mux' \in [Mux -> Blocks]
      /\ Changed(mutex, IF mux[mutex].count = 1 THEN NoTask ELSE mux[mutex].holder,
                 mux[mutex].count - 1)
  BY <1>t, GiveChanges DEF Unlock, TypeOK, Blocks
<1>1. TypeOK'
  BY <1>t, <1>g DEF Unlock, Blocks, TypeOK
<1>2. OneBlock'
  BY <1>g DEF Unlock, Changed, Initialized, OneBlock
<1>3. Calls'
  BY <1>t, <1>g DEF Unlock, Changed, Initialized, Usable, Calls
<1>4. Destroying'
  BY <1>t DEF Unlock, Destroying
<1>5. Holds'
  BY <1>t, <1>g DEF Unlock, Changed, Initialized, TypeOK, Holds
<1> QED
  BY <1>1, <1>2, <1>3, <1>4, <1>5

\* TestStatic preserves the invariant.
LEMMA TestStaticStep ==
  ASSUME NEW t \in Task, NotOwn, IInv, TestStatic(t)
  PROVE  IInv'
<1> USE MutexAssumption DEF IInv, NotOwn
<1>0. PcOk
  BY PcShape
<1>1. TypeOK'
  BY DEF TestStatic, At, Goto, TypeOK, PC, Out
<1>2. OneBlock'
  BY DEF TestStatic, Goto, Initialized, Live, OneBlock
<1>3. Calls'
  BY <1>0 DEF TestStatic, At, Goto, Usable, Initialized, Live, PcOk, Calls
<1>4. Destroying'
  BY <1>0 DEF TestStatic, At, Goto, PcOk, Destroying
<1>5. Holds'
  BY DEF TestStatic, At, Goto, Initialized, Live, Holds
<1> QED
  BY <1>1, <1>2, <1>3, <1>4, <1>5

\* InitIfStatic preserves the invariant.
LEMMA InitIfStaticStep ==
  ASSUME NEW t \in Task, NotOwn, IInv, InitIfStatic(t)
  PROVE  IInv'
<1> USE MutexAssumption DEF IInv, NotOwn
<1>0. PcOk
  BY PcShape
<1>a. PICK m \in Mux : UNCHANGED <<mutex, mux>> \/ NewMux(m, "normal")
  BY DEF InitIfStatic, TypeOK
<1>b. /\ mutex' \in Mux \cup {Static}
      /\ mux' \in [Mux -> [live : BOOLEAN, type : Type,
               holder : Task \cup {NoTask}, count : 0..MaxDepth + 1]]
  <2>1. CASE UNCHANGED <<mutex, mux>>
    BY <2>1 DEF TypeOK
  <2>2. CASE NewMux(m, "normal")
    <3>1. Block(TRUE, "normal") \in
            [live : BOOLEAN, type : Type, holder : Task \cup {NoTask},
             count : 0..MaxDepth + 1]
      BY DEF Block, Type
    <3> QED
      BY <2>2, <3>1 DEF NewMux, TypeOK
  <2> QED
    BY <1>a, <2>1, <2>2
<1>c. pc' \in [Task -> PC]
  BY <1>0 DEF InitIfStatic, At, Goto, TypeOK, PC, PcOk
<1>1. TypeOK'
  BY <1>b, <1>c DEF InitIfStatic, TypeOK
<1>2. OneBlock'
  BY DEF InitIfStatic, Goto, NewMux, Block, Initialized, Live, TypeOK, OneBlock
<1>3. Calls'
  BY <1>0
  DEF InitIfStatic, At, Goto, NewMux, Block, Usable, Initialized, Live, TypeOK,
      PcOk, Calls
<1>4. Destroying'
  BY <1>0 DEF InitIfStatic, At, Goto, PcOk, Destroying
<1>5. Holds'
  BY DEF InitIfStatic, At, Goto, NewMux, Block, Initialized, Live, TypeOK, Holds
<1> QED
  BY <1>1, <1>2, <1>3, <1>4, <1>5

\* ReadMutex preserves the invariant.
LEMMA ReadMutexStep ==
  ASSUME NEW t \in Task, NotOwn, IInv, ReadMutex(t)
  PROVE  IInv'
<1> USE MutexAssumption DEF IInv, NotOwn
<1>0. PcOk
  BY PcShape
<1>1. TypeOK'
  BY DEF ReadMutex, At, Goto, TypeOK, PC, Out
<1>2. OneBlock'
  BY DEF ReadMutex, At, Goto, Initialized, Live, TypeOK, OneBlock, Calls
<1>3. Calls'
  BY DEF ReadMutex, Goto, Initialized, Live, Usable, Calls
<1>4. Destroying'
  BY <1>0 DEF ReadMutex, At, Goto, PcOk, Destroying
<1>5. Holds'
  BY DEF ReadMutex, At, Goto, Initialized, Live, Holds
<1> QED
  BY <1>1, <1>2, <1>3, <1>4, <1>5

\* LockTaken preserves the invariant.
LEMMA LockTakenStep ==
  ASSUME NEW t \in Task, NotOwn, IInv, LockTaken(t)
  PROVE  IInv'
<1> USE MutexAssumption DEF IInv, NotOwn
<1>0. PcOk
  BY PcShape
<1>t. ptr[t] = mutex /\ Initialized /\ mutex \in Mux
  BY DEF LockTaken, At, OneBlock, Initialized, Live
<1>c. mux[mutex].count = held[t] /\ held[t] < MaxDepth
  BY <1>t DEF LockTaken, At, Takeable, Holds, Calls
<1>g. mux' \in [Mux -> Blocks] /\ Changed(mutex, t, mux[mutex].count + 1)
  BY <1>t, <1>c, TakeChanges DEF LockTaken, TypeOK, Blocks
<1>1. TypeOK'
  BY <1>c, <1>g DEF LockTaken, Blocks, Return, TypeOK, PC
<1>2. OneBlock'
  BY <1>g DEF LockTaken, Changed, Return, Initialized, TypeOK, Out, OneBlock
<1>3. Calls'
  BY <1>g
  DEF LockTaken, Changed, Return, Initialized, Usable, Locks, TypeOK, Out, Calls
<1>4. Destroying'
  BY DEF LockTaken, Return, Locks, Out, Destroying
<1>5. Holds'
  BY <1>t, <1>c, <1>g
  DEF LockTaken, Changed, Return, Initialized, TypeOK, Out, Holds
<1> QED
  BY <1>1, <1>2, <1>3, <1>4, <1>5

\* LockRefused preserves the invariant.
LEMMA LockRefusedStep ==
  ASSUME NEW t \in Task, NotOwn, IInv, LockRefused(t)
  PROVE  IInv'
<1> USE MutexAssumption DEF IInv, NotOwn
<1>0. PcOk
  BY PcShape
<1>1. TypeOK'
  BY DEF LockRefused, Return, TypeOK, PC
<1>2. OneBlock'
  BY DEF LockRefused, Return, Initialized, Live, TypeOK, Out, OneBlock
<1>3. Calls'
  BY DEF LockRefused, Return, Initialized, Live, Usable, Out, Calls
<1>4. Destroying'
  BY DEF LockRefused, Return, Out, Destroying
<1>5. Holds'
  BY DEF LockRefused, At, Return, Initialized, Live, Out, Holds
<1> QED
  BY <1>1, <1>2, <1>3, <1>4, <1>5

\* DestroyBusy preserves the invariant.
LEMMA DestroyBusyStep ==
  ASSUME NEW t \in Task, NotOwn, IInv, DestroyBusy(t)
  PROVE  IInv'
<1> USE MutexAssumption DEF IInv, NotOwn
<1>0. PcOk
  BY PcShape
<1>1. TypeOK'
  BY DEF DestroyBusy, Return, TypeOK, PC
<1>2. OneBlock'
  BY DEF DestroyBusy, Return, Initialized, Live, TypeOK, Out, OneBlock
<1>3. Calls'
  BY DEF DestroyBusy, Return, Initialized, Live, Usable, Locks, Out, Calls
<1>4. Destroying'
  BY DEF DestroyBusy, Return, Out, Destroying
<1>5. Holds'
  BY DEF DestroyBusy, At, Return, Initialized, Live, Out, Holds
<1> QED
  BY <1>1, <1>2, <1>3, <1>4, <1>5

\* DestroyTake preserves the invariant.
LEMMA DestroyTakeStep ==
  ASSUME NEW t \in Task, NotOwn, IInv, DestroyTake(t)
  PROVE  IInv'
<1> USE MutexAssumption DEF IInv, NotOwn
<1>0. PcOk
  BY PcShape
<1>t. /\ ptr[t] = mutex /\ Initialized /\ mutex \in Mux
      /\ held[t] = 0 /\ pc[t].at # "give"
  BY DEF DestroyTake, At, OneBlock, Initialized, Live, Destroying
<1>c. mux[mutex].count = 0 /\ mux[mutex].holder = NoTask
  BY <1>t DEF DestroyTake, Deadlk, Takeable, Holds
<1>g. mux' \in [Mux -> Blocks] /\ Changed(mutex, t, mux[mutex].count + 1)
  BY <1>t, <1>c, TakeChanges DEF DestroyTake, Deadlk, TypeOK, Blocks
<1>1. TypeOK'
  BY <1>g DEF DestroyTake, Goto, Blocks, TypeOK, PC, Out
<1>2. OneBlock'
  BY <1>t, <1>g DEF DestroyTake, Goto, Changed, Initialized, OneBlock
<1>3. Calls'
  BY <1>g DEF DestroyTake, Goto, Changed, Initialized, Usable, Calls
<1>4. Destroying'
  BY <1>0, <1>c, <1>g DEF DestroyTake, At, Goto, Changed, PcOk, Destroying
<1>5. Holds'
  BY <1>c, <1>g DEF DestroyTake, Goto, Changed, TypeOK, Holds
<1> QED
  BY <1>1, <1>2, <1>3, <1>4, <1>5

\* DestroyGive preserves the invariant.
LEMMA DestroyGiveStep ==
  ASSUME NEW t \in Task, NotOwn, IInv, DestroyGive(t)
  PROVE  IInv'
<1> USE MutexAssumption DEF IInv, NotOwn
<1>0. PcOk
  BY PcShape
<1>t. ptr[t] = mutex /\ Initialized /\ mutex \in Mux /\ mux[mutex].count = 1
  BY <1>0 DEF DestroyGive, At, OneBlock, Initialized, Live, Destroying, PcOk
<1>g. /\ mux' \in [Mux -> Blocks]
      /\ Changed(mutex, IF mux[mutex].count = 1 THEN NoTask ELSE mux[mutex].holder,
                 mux[mutex].count - 1)
  BY <1>t, GiveChanges DEF DestroyGive, TypeOK, Blocks
<1>1. TypeOK'
  BY <1>g DEF DestroyGive, At, Goto, Blocks, Live, TypeOK, PC, Out
<1>2. OneBlock'
  BY <1>t, <1>g DEF DestroyGive, Goto, Changed, Initialized, OneBlock
<1>3. Calls'
  BY <1>g DEF DestroyGive, Goto, Changed, Initialized, Usable, Calls
<1>4. Destroying'
  BY <1>0, <1>g DEF DestroyGive, At, Goto, Changed, TypeOK, PcOk, Destroying
<1>5. Holds'
  BY <1>0, <1>g DEF DestroyGive, At, Changed, PcOk, Destroying, Holds
<1> QED
  BY <1>1, <1>2, <1>3, <1>4, <1>5

\* DestroyFree preserves the invariant.
LEMMA DestroyFreeStep ==
  ASSUME NEW t \in Task, NotOwn, IInv, DestroyFree(t)
  PROVE  IInv'
<1> USE MutexAssumption DEF IInv, NotOwn
<1>0. PcOk
  BY PcShape
<1>1. TypeOK'
  BY DEF DestroyFree, At, Return, Block, Type, Initialized, Live, TypeOK, PC,
         OneBlock
<1>2. OneBlock'
  BY <1>0
  DEF DestroyFree, At, Return, Block, Live, TypeOK, PcOk, Out, OneBlock,
      Destroying
<1>3. Calls'
  BY <1>0
  DEF DestroyFree, At, Return, Block, Locks, PcOk, Out, Calls, Destroying
<1>4. Destroying'
  BY DEF DestroyFree, At, Return, Block, Out, Destroying
<1>5. Holds'
  BY <1>0 DEF DestroyFree, At, Block, Initialized, Live, PcOk, Destroying, Holds
<1> QED
  BY <1>1, <1>2, <1>3, <1>4, <1>5

-----------------------------------------------------------------------------

\* The initial state: a static mutex, no block, no call.
LEMMA InitIInv == Init => IInv
<1> SUFFICES ASSUME Init PROVE IInv
  OBVIOUS
<1> USE MutexAssumption DEF Init, Block
<1>1. TypeOK
  BY DEF TypeOK, Type, PC
<1>2. OneBlock /\ Calls /\ Destroying /\ Holds
  BY DEF OneBlock, Calls, Destroying, Holds, Out, Locks, Initialized, Live
<1> QED
  BY <1>1, <1>2 DEF IInv

\* A step that changes no variable.
LEMMA StutterIInv == IInv /\ UNCHANGED vars => IInv'
  BY DEF vars, IInv, TypeOK, OneBlock, Calls, Destroying, Holds, Initialized,
         Live, Usable

\* Every step.
LEMMA NextIInv ==
  ASSUME NotOwn, IInv, [Next]_vars
  PROVE  IInv'
<1>1. CASE UNCHANGED vars
  BY <1>1, StutterIInv
<1>2. CASE Next
  <2>1. PICK t \in Task :
          \/ CallLock(t) \/ CallDestroy(t) \/ MutexInit(t) \/ InitFails(t)
          \/ Unlock(t) \/ Continue(t)
    BY <1>2 DEF Next
  <2> QED
    BY <2>1, CallLockStep, CallDestroyStep, MutexInitStep, InitFailsStep,
       UnlockStep, TestStaticStep, InitIfStaticStep, ReadMutexStep,
       LockTakenStep, LockRefusedStep, DestroyBusyStep, DestroyTakeStep,
       DestroyGiveStep, DestroyFreeStep
    DEF Continue
<1> QED
  BY <1>1, <1>2

(***************************************************************************)
(* The invariant of mutexes holds for any tasks and any blocks.            *)
(***************************************************************************)
THEOREM Invariance == ASSUME NotOwn PROVE Spec => []IInv
<1>1. ASSUME IInv, [Next]_vars PROVE IInv'
  BY <1>1, NextIInv
<1> QED
  BY <1>1, InitIInv, PTL DEF Spec

\* Every variable keeps its type; no count or nesting leaves its range.
THEOREM TypeCorrect == ASSUME NotOwn PROVE Spec => []TypeOK
<1>1. IInv => TypeOK
  BY DEF IInv
<1> QED
  BY <1>1, Invariance, PTL

\* However many tasks race for the first lock of a static mutex, one block
\* results and all of them use it.
THEOREM LazyInitIsSafe == ASSUME NotOwn PROVE Spec => []OneBlock
<1>1. IInv => OneBlock
  BY DEF IInv
<1> QED
  BY <1>1, Invariance, PTL

\* The semaphore's holder and count are what lock and unlock have answered.
THEOREM SemaphoreCorrect == ASSUME NotOwn PROVE Spec => []SemaphoreMatchesHolds
<1>1. IInv => SemaphoreMatchesHolds
  BY DEF IInv, Holds, SemaphoreMatchesHolds
<1> QED
  BY <1>1, Invariance, PTL

\* No mutex that anyone holds is freed, as long as nobody destroys what it
\* holds itself.
THEOREM DestroyIsSafe == ASSUME NotOwn PROVE Spec => []HeldIsNotFreed
<1>1. IInv => HeldIsNotFreed
  BY DEF IInv, Holds, HeldIsNotFreed, Initialized, Usable
<1> QED
  BY <1>1, Invariance, PTL

-----------------------------------------------------------------------------
\* Mutual exclusion: what lock and trylock have granted is with one task.
OneHolder == \A t, u \in Task : held[t] > 0 /\ held[u] > 0 => t = u

\* However pthread_mutex_lock, its timed and its try form, unlock and destroy
\* are interleaved, two tasks never hold a mutex at once.
THEOREM MutualExclusion == ASSUME NotOwn PROVE Spec => []OneHolder
<1>1. IInv => OneHolder
  BY DEF IInv, Holds, OneHolder
<1> QED
  BY <1>1, Invariance, PTL

\* What pthread_mutex_lock waits for: the semaphore, with no answer due.
Waits(t) ==
  At(t, "take") /\ pc[t].call = "lock" /\ ~ Takeable(ptr[t], t) /\ ~ Deadlk(ptr[t], t)

\* Somebody else, who has been granted the mutex and is to unlock it.
WaitsForHolder == \A t \in Task : Waits(t) => \E u \in Task \ {t} : held[u] > 0

\* While a task is in the call, the mutex does not become one it holds.
LocksOthers ==
  \A t \in Task : pc[t].call = "lock" /\ Initialized /\ mux[mutex].type = "normal" => held[t] = 0

LEMMA LocksOthersStep ==
  ASSUME NotOwn, IInv, LocksOthers, [Next]_vars
  PROVE  LocksOthers'
<1> USE MutexAssumption DEF LocksOthers
<1>0. PcOk /\ TypeOK /\ OneBlock /\ Destroying /\ Holds
  BY PcShape DEF IInv
<1>1. CASE UNCHANGED vars
  BY <1>1 DEF vars, Initialized, Live
<1>2. CASE Next
  <2>1. PICK t \in Task :
          \/ CallLock(t) \/ CallDestroy(t) \/ MutexInit(t) \/ InitFails(t)
          \/ Unlock(t) \/ Continue(t)
    BY <1>2 DEF Next
  <2>2. CASE CallLock(t)
    BY <1>0, <2>2 DEF CallLock, MayLock, TypeOK, Initialized, Live
  <2>3. CASE CallDestroy(t) \/ InitFails(t) \/ TestStatic(t) \/ ReadMutex(t) \/ LockRefused(t)
                \/ DestroyBusy(t)
    BY <1>0, <2>3
    DEF CallDestroy, InitFails, TestStatic, ReadMutex, LockRefused, DestroyBusy, Goto, Return, Out,
        TypeOK, PC, Initialized, Live
  <2>4. CASE MutexInit(t)
    BY <2>4 DEF MutexInit, Idle, Out
  <2>5. CASE InitIfStatic(t)
    BY <1>0, <2>5 DEF InitIfStatic, NewMux, Block, Goto, TypeOK, PC, Holds, Initialized, Live
  <2>6. CASE Unlock(t)
    BY <1>0, <2>6 DEF Unlock, Give, Out, TypeOK, Initialized, Live
  <2>7. CASE LockTaken(t)
    BY <1>0, <2>7 DEF LockTaken, Take, Return, Out, TypeOK, OneBlock, Initialized, Live, At
  <2>8. CASE DestroyTake(t) \/ DestroyGive(t) \/ DestroyFree(t)
    <3>1. pc[t].call = "destroy" /\ \A u \in Task : u # t => pc[u] = Out
      BY <1>0, <2>8 DEF DestroyTake, DestroyGive, DestroyFree, At, PcOk, Destroying, Locks, Out
    <3>2. \A u \in Task : pc'[u].call # "lock"
      <4>1. pc' = [pc EXCEPT ![t].at = pc'[t].at] \/ pc' = [pc EXCEPT ![t] = Out]
        BY <1>0, <2>8
        DEF DestroyTake, DestroyGive, DestroyFree, Goto, Return, Out, TypeOK, PC
      <4>2. CASE pc' = [pc EXCEPT ![t] = Out]
        BY <1>0, <3>1, <4>2 DEF Out, TypeOK
      <4>3. CASE pc' = [pc EXCEPT ![t].at = pc'[t].at]
        BY <1>0, <3>1, <4>3 DEF Out, TypeOK, PC
      <4> QED
        BY <4>1, <4>2, <4>3
    <3> QED
      BY <3>2
  <2> QED
    BY <2>1, <2>2, <2>3, <2>4, <2>5, <2>6, <2>7, <2>8 DEF Continue
<1> QED
  BY <1>1, <1>2

\* A call of pthread_mutex_lock that sleeps on the semaphore never waits for its
\* own caller, nor for a destroy: another task holds the mutex.
THEOREM LockWaitsForHolder == ASSUME NotOwn PROVE Spec => []WaitsForHolder
<1>1. Init => LocksOthers
  BY DEF Init, LocksOthers, Out
<1>2. ASSUME IInv, LocksOthers, [Next]_vars PROVE LocksOthers'
  BY <1>2, LocksOthersStep
<1>3. IInv /\ LocksOthers => WaitsForHolder
  <2> SUFFICES ASSUME IInv, LocksOthers, NEW t \in Task, Waits(t)
               PROVE  \E u \in Task \ {t} : held[u] > 0
    BY DEF WaitsForHolder
  <2> DEFINE u == mux[mutex].holder
  <2>1. /\ ptr[t] = mutex /\ Initialized /\ u # NoTask /\ u \in Task
        /\ mux[mutex].count # 0 /\ mux[mutex].count \in Nat
    BY DEF Waits, At, Takeable, IInv, OneBlock, Initialized, Live, TypeOK, Holds
  <2>2. pc[u].at # "give"
    BY <2>1, PcShape DEF Waits, IInv, Destroying, PcOk, Locks, Out
  <2>3. held[u] > 0
    BY <2>1, <2>2 DEF IInv, Holds
  <2>4. u # t
    BY <2>1, <2>3 DEF Waits, Takeable, Deadlk, LocksOthers, IInv, TypeOK, Type, Initialized, Live
  <2> QED
    BY <2>1, <2>3, <2>4
<1> QED
  BY <1>1, <1>2, <1>3, Invariance, PTL DEF Spec

-----------------------------------------------------------------------------
\* Every step is one of MutexSpec, or none that its users see.
LEMMA StepIsAbstract ==
  ASSUME NotOwn, IInv, [Next]_vars PROVE [Abstract!Next]_<<held, Usable>>
<1> USE MutexAssumption DEF IInv
<1>0. PcOk
  BY PcShape
<1>1. CASE UNCHANGED vars
  BY <1>1 DEF vars, Usable, Live
<1>2. ASSUME NEW t \in Task, LockTaken(t) PROVE Abstract!Lock(t)
  BY <1>2
  DEF LockTaken, At, Takeable, Take, OneBlock, Holds, Calls, Usable, Live,
      Abstract!Lock, Abstract!Others
<1>3. ASSUME NEW t \in Task, Unlock(t) PROVE Abstract!Unlock(t)
  BY <1>3
  DEF Unlock, MayUnlock, Give, TypeOK, Holds, Initialized, Usable, Live, Out,
      Abstract!Unlock
<1>4. ASSUME NEW t \in Task, DestroyFree(t) PROVE Abstract!Destroy
  BY <1>0, <1>4
  DEF DestroyFree, At, Block, TypeOK, OneBlock, Holds, Destroying, PcOk,
      Initialized, Usable, Live, Abstract!Destroy
<1>5. ASSUME NEW t \in Task, MutexInit(t) PROVE Abstract!Create
  BY <1>5 DEF MutexInit, NewMux, Block, TypeOK, Usable, Live, Abstract!Create
<1>6. ASSUME NEW t \in Task,
             CallLock(t) \/ CallDestroy(t) \/ InitFails(t) \/ TestStatic(t)
               \/ ReadMutex(t) \/ LockRefused(t) \/ DestroyBusy(t)
      PROVE UNCHANGED <<held, Usable>>
  BY <1>6
  DEF CallLock, CallDestroy, InitFails, TestStatic, ReadMutex, LockRefused,
      DestroyBusy, Usable, Live
<1>7. ASSUME NEW t \in Task, DestroyTake(t) \/ DestroyGive(t)
      PROVE UNCHANGED <<held, Usable>>
  <2>1. \A m \in Mux : mux'[m].live = mux[m].live
    <3>1. CASE UNCHANGED mux
      BY <3>1
    <3>2. CASE Take(ptr[t], t)
      BY <3>2 DEF Take
    <3>3. CASE Give(ptr[t])
      BY <3>3 DEF Give
    <3> QED
      BY <1>7, <3>2, <3>3 DEF DestroyTake, DestroyGive
  <2> QED
    BY <1>7, <2>1 DEF DestroyTake, DestroyGive, Usable, Live
<1>8. ASSUME NEW t \in Task, InitIfStatic(t) PROVE UNCHANGED <<held, Usable>>
  BY <1>8 DEF InitIfStatic, NewMux, Block, TypeOK, Usable, Live
<1>9. CASE Next
  BY <1>9, <1>2, <1>3, <1>4, <1>5, <1>6, <1>7, <1>8
  DEF Next, Continue, Abstract!Next
<1> QED
  BY <1>1, <1>9

(***************************************************************************)
(* The mutexes of pthread.c implement MutexSpec: mutual exclusion, nested  *)
(* locking, unlocking by holders only, and no destruction under a holder.  *)
(***************************************************************************)
THEOREM Refinement == ASSUME NotOwn PROVE Spec => ImplementsMutex
<1>1. Init => Abstract!Init
  BY DEF Init, Abstract!Init, Usable
<1>2. ASSUME IInv, [Next]_vars PROVE [Abstract!Next]_<<held, Usable>>
  BY <1>2, StepIsAbstract
<1> QED
  BY <1>1, <1>2, Invariance, PTL DEF Spec, ImplementsMutex, Abstract!Spec
=============================================================================
