---------------------------- MODULE EventFd_proofs ----------------------------
(***************************************************************************)
(* Proofs about EventFd, for any sets of tasks, slots and time-outs: types *)
(* and CountsOwnWrites.  What the second rests on is that a slot has one   *)
(* user from the compare and exchange that claims it to the last store of  *)
(* the close that frees it.                                                *)
(***************************************************************************)
EXTENDS EventFd, TLAPS

Users == InPoll \cup {"open", "read"}        \* has a descriptor to use
Owners == Users \cup {"set", "free"}         \* has a slot

\* A slot that a task has is taken, and no other task has it.
SlotsAreOwned ==
  /\ \A t \in Task : pc[t] = "claim" => fd[t] \in Index
  /\ \A t \in Task : pc[t] \in Owners => fd[t] \in Index /\ active[fd[t]] = 1
  /\ \A t, u \in Task : t # u /\ pc[t] \in Owners /\ pc[u] \in Owners => fd[t] # fd[u]

IInv == TypeOK /\ SlotsAreOwned /\ CountsOwnWrites

LEMMA Starts == Init => IInv
  BY PollAssumption
  DEF Init, IInv, TypeOK, SlotsAreOwned, CountsOwnWrites, InPoll, Owners, Users

\* An open starts its search at the first slot.
LEMMA CallEventfdKeeps ==
  ASSUME IInv, NEW t \in Task, CallEventfd(t)
  PROVE  IInv'
<1> USE DEF IInv
<1>1. 0 \in Index
  BY PollAssumption DEF Index
<1>2. TypeOK'
  BY <1>1 DEF CallEventfd, Goto, polling, TypeOK
<1>3. SlotsAreOwned'
  BY <1>1 DEF CallEventfd, Goto, TypeOK, SlotsAreOwned, Owners, Users, InPoll
<1>4. CountsOwnWrites'
  BY DEF CallEventfd, Goto, CountsOwnWrites, InPoll
<1> QED
  BY <1>2, <1>3, <1>4

LEMMA ClaimSlotKeeps ==
  ASSUME IInv, NEW t \in Task, ClaimSlot(t)
  PROVE  IInv'
<1> USE DEF IInv
<1>1. TypeOK'
  BY DEF ClaimSlot, Goto, polling, TypeOK, SlotsAreOwned
<1>2. SlotsAreOwned'
  BY DEF ClaimSlot, Goto, TypeOK, SlotsAreOwned
<1>3. CountsOwnWrites'
  BY DEF ClaimSlot, Goto, CountsOwnWrites, InPoll
<1> QED
  BY <1>1, <1>2, <1>3

LEMMA NextSlotKeeps ==
  ASSUME IInv, NEW t \in Task, NextSlot(t)
  PROVE  IInv'
<1> USE DEF IInv
<1>1. fd'[t] \in Index /\ fd' = [fd EXCEPT ![t] = fd'[t]]
  BY PollAssumption DEF NextSlot, TypeOK, SlotsAreOwned, Index
<1>2. TypeOK'
  BY <1>1 DEF NextSlot, polling, TypeOK
<1>3. SlotsAreOwned'
  BY <1>1 DEF NextSlot, SlotsAreOwned, Owners, Users, InPoll
<1>4. CountsOwnWrites'
  BY DEF NextSlot, CountsOwnWrites, InPoll
<1> QED
  BY <1>2, <1>3, <1>4

LEMMA NoSlotKeeps ==
  ASSUME IInv, NEW t \in Task, NoSlot(t)
  PROVE  IInv'
<1> USE DEF IInv
<1>1. TypeOK'
  BY DEF NoSlot, Goto, polling, TypeOK
<1>2. SlotsAreOwned'
  BY DEF NoSlot, Goto, TypeOK, SlotsAreOwned, Owners, Users, InPoll
<1>3. CountsOwnWrites'
  BY DEF NoSlot, Goto, CountsOwnWrites, InPoll
<1> QED
  BY <1>1, <1>2, <1>3

\* The owner of a slot sets its value, and what it has unread with it.
LEMMA SetInitialKeeps ==
  ASSUME IInv, NEW t \in Task, SetInitial(t)
  PROVE  IInv'
<1> USE DEF IInv
<1>1. PICK initial_value \in {0, 1} :
        /\ value' = [value EXCEPT ![fd[t]] = initial_value]
        /\ unread' = [unread EXCEPT ![t] = initial_value]
  BY DEF SetInitial
<1>2. initial_value \in 0 .. MaxUnread
  BY PollAssumption
<1>3. TypeOK'
  BY <1>1, <1>2 DEF SetInitial, Goto, polling, TypeOK
<1>4. SlotsAreOwned'
  BY DEF SetInitial, Goto, SlotsAreOwned, Owners
<1>5. CountsOwnWrites'
  BY DEF SetInitial, Goto, TypeOK, SlotsAreOwned, CountsOwnWrites, Owners, Users
<1> QED
  BY <1>3, <1>4, <1>5

LEMMA WriteKeeps ==
  ASSUME IInv, NEW t \in Task, Write(t)
  PROVE  IInv'
<1> USE DEF IInv
<1>1. fd[t] \in Index /\ value[fd[t]] = unread[t] /\ unread[t] + 1 \in 0 .. MaxUnread
  BY PollAssumption
  DEF Write, TypeOK, SlotsAreOwned, CountsOwnWrites, Owners, Users
<1>2. TypeOK'
  BY <1>1 DEF Write, polling, TypeOK
<1>3. SlotsAreOwned'
  BY DEF Write, SlotsAreOwned
<1>4. CountsOwnWrites'
  BY DEF Write, TypeOK, SlotsAreOwned, CountsOwnWrites, Owners, Users
<1> QED
  BY <1>2, <1>3, <1>4

LEMMA ReadStepKeeps ==
  ASSUME IInv, NEW t \in Task, Read(t)
  PROVE  IInv'
<1> USE DEF IInv
<1>1. 0 \in 0 .. MaxUnread
  BY PollAssumption
<1>2. TypeOK'
  BY <1>1 DEF Read, Goto, polling, TypeOK
<1>3. SlotsAreOwned'
  BY DEF Read, Goto, SlotsAreOwned, Owners, Users
<1>4. CountsOwnWrites'
  BY DEF Read, Goto, TypeOK, SlotsAreOwned, CountsOwnWrites, Owners, Users
<1> QED
  BY <1>2, <1>3, <1>4

LEMMA CloseKeeps ==
  ASSUME IInv, NEW t \in Task, Close(t)
  PROVE  IInv'
<1> USE DEF IInv
<1>1. 0 \in 0 .. MaxUnread
  BY PollAssumption
<1>2. CASE pc[t] = "open"
  <2>1. /\ value' = [value EXCEPT ![fd[t]] = 0] /\ pc' = [pc EXCEPT ![t] = "free"]
        /\ UNCHANGED <<active, fd, unread, polling>>
    BY <1>2 DEF Close, Goto
  <2>2. TypeOK'
    BY <1>1, <2>1 DEF polling, TypeOK
  <2>3. SlotsAreOwned'
    BY <1>2, <2>1 DEF SlotsAreOwned, Owners, Users
  <2>4. CountsOwnWrites'
    BY <1>2, <2>1
    DEF TypeOK, SlotsAreOwned, CountsOwnWrites, Owners, Users, InPoll
  <2> QED
    BY <2>2, <2>3, <2>4
<1>3. CASE pc[t] = "free"
  <2>1. /\ active' = [active EXCEPT ![fd[t]] = 0] /\ fd' = [fd EXCEPT ![t] = NoFd]
        /\ pc' = [pc EXCEPT ![t] = "closed"]
        /\ UNCHANGED <<value, unread, polling>>
    BY <1>3 DEF Close, Goto
  <2>2. TypeOK'
    BY <2>1 DEF polling, TypeOK
  <2>3. SlotsAreOwned'
    BY <1>3, <2>1 DEF TypeOK, SlotsAreOwned, Owners, Users, InPoll
  <2>4. CountsOwnWrites'
    BY <2>1 DEF TypeOK, CountsOwnWrites, InPoll
  <2> QED
    BY <2>2, <2>3, <2>4
<1> QED
  BY <1>2, <1>3 DEF Close

-----------------------------------------------------------------------------
\* The steps of poll move a task among the users of its slot.

LEMMA PollMoves ==
  ASSUME IInv, NEW t \in Task, NEW p \in Users,
         pc[t] \in Users, pc' = [pc EXCEPT ![t] = p],
         UNCHANGED <<active, value, fd, unread>>
  PROVE  SlotsAreOwned' /\ CountsOwnWrites'
<1>1. SlotsAreOwned'
  BY DEF IInv, SlotsAreOwned, Owners
<1>2. CountsOwnWrites'
  BY DEF IInv, CountsOwnWrites, Users
<1> QED
  BY <1>1, <1>2

LEMMA CallPollKeeps ==
  ASSUME IInv, NEW t \in Task, NEW ms \in Timeouts, CallPoll(t, ms)
  PROVE  IInv'
<1>1. TypeOK'
  BY DEF CallPoll, Goto, IInv, TypeOK, InPoll
<1>2. SlotsAreOwned' /\ CountsOwnWrites'
  BY PollMoves DEF CallPoll, Goto, Users, InPoll
<1> QED
  BY <1>1, <1>2 DEF IInv

LEMMA LookKeeps ==
  ASSUME IInv, NEW t \in Task, LookReady(t) \/ LookNotReady(t)
  PROVE  IInv'
<1>1. PICK p \in {"read", "open", "wait"} :
        pc' = [pc EXCEPT ![t] = p] /\ UNCHANGED <<active, value, fd, unread, polling>>
  BY DEF LookReady, LookNotReady, Goto
<1>2. TypeOK'
  BY <1>1 DEF polling, IInv, TypeOK, InPoll
<1>3. SlotsAreOwned' /\ CountsOwnWrites'
  BY <1>1, PollMoves DEF LookReady, LookNotReady, Users, InPoll
<1> QED
  BY <1>2, <1>3 DEF IInv

LEMMA WaitReadyKeeps ==
  ASSUME IInv, NEW t \in Task, WaitReady(t) \/ WaitFails(t)
  PROVE  IInv'
<1>1. TypeOK'
  BY DEF WaitReady, WaitFails, Goto, polling, IInv, TypeOK, InPoll
<1>2. SlotsAreOwned' /\ CountsOwnWrites'
  BY PollMoves DEF WaitReady, WaitFails, Goto, Users, InPoll
<1> QED
  BY <1>1, <1>2 DEF IInv

\* A wait is cut to what is left of the time-out.
LEMMA WaitOverKeeps ==
  ASSUME IInv, NEW t \in Task, WaitOver(t)
  PROVE  IInv'
<1>1. PICK p \in {"open", "look"} : pc' = [pc EXCEPT ![t] = p]
  BY DEF WaitOver, AfterWait, Goto
<1>2. /\ timeout[t] \in Int /\ elapsed[t] \in Nat
      /\ elapsed[t] = 0 \/ elapsed[t] <= timeout[t]
  <2>1. timeout[t] \in Timeouts \cup {-1}
    BY DEF IInv, TypeOK
  <2>2. Timeouts \subseteq Int /\ -1 \in Int
    BY PollAssumption
  <2>3. elapsed[t] \in Nat /\ (elapsed[t] = 0 \/ elapsed[t] <= timeout[t])
    BY DEF IInv, TypeOK
  <2> QED
    BY <2>1, <2>2, <2>3
<1> DEFINE e == IF timeout[t] < 0 THEN elapsed[t] ELSE elapsed[t] + WaitTime(t)
<1>3. e \in Nat /\ (e = 0 \/ e <= timeout[t])
  BY <1>2, PollAssumption DEF WaitTime
<1>4. /\ elapsed' = [elapsed EXCEPT ![t] = e]
      /\ UNCHANGED <<active, value, fd, unread, timeout, socket>>
  BY DEF WaitOver
<1>5. TypeOK'
  <2> HIDE DEF e
  <2> QED
    BY <1>1, <1>3, <1>4 DEF IInv, TypeOK, InPoll
<1>6. SlotsAreOwned' /\ CountsOwnWrites'
  BY <1>1, <1>4, PollMoves DEF WaitOver, Users, InPoll
<1> QED
  BY <1>5, <1>6 DEF IInv

LEMMA SocketReadyKeeps ==
  ASSUME IInv, NEW t \in Task, SocketReady(t)
  PROVE  IInv'
  BY DEF SocketReady, IInv, TypeOK, SlotsAreOwned, CountsOwnWrites

-----------------------------------------------------------------------------
LEMMA StepKeeps ==
  ASSUME IInv, [Next]_vars
  PROVE  IInv'
<1>1. CASE UNCHANGED vars
  BY <1>1 DEF vars, IInv, TypeOK, SlotsAreOwned, CountsOwnWrites
<1>2. ASSUME NEW t \in Task,
             \/ CallEventfd(t) \/ ClaimSlot(t) \/ NextSlot(t) \/ NoSlot(t) \/ SetInitial(t)
             \/ Write(t) \/ Read(t) \/ Close(t)
      PROVE  IInv'
  BY <1>2, CallEventfdKeeps, ClaimSlotKeeps, NextSlotKeeps, NoSlotKeeps,
     SetInitialKeeps, WriteKeeps, ReadStepKeeps, CloseKeeps
<1>3. ASSUME NEW t \in Task, PollStep(t) \/ WaitFails(t) \/ SocketReady(t)
      PROVE  IInv'
  BY <1>3, LookKeeps, WaitReadyKeeps, WaitOverKeeps, SocketReadyKeeps
  DEF PollStep
<1>4. ASSUME NEW t \in Task, NEW ms \in Timeouts, CallPoll(t, ms)
      PROVE  IInv'
  BY <1>4, CallPollKeeps
<1> QED
  BY <1>1, <1>2, <1>3, <1>4 DEF Next

(***************************************************************************)
(* The inductive invariant holds of the descriptors and of poll.           *)
(***************************************************************************)
THEOREM Invariance == Spec => []IInv
<1>1. Init => IInv
  BY Starts
<1>2. IInv /\ [Next]_vars => IInv'
  BY StepKeeps
<1> QED
  BY <1>1, <1>2, PTL DEF Spec

(***************************************************************************)
(* Variables keep their types, and poll adds up no more waiting than it    *)
(* was allowed: TypeOK.                                                    *)
(***************************************************************************)
THEOREM TypeCorrect == Spec => []TypeOK
<1>1. IInv => TypeOK
  BY DEF IInv
<1> QED
  BY <1>1, Invariance, PTL

(***************************************************************************)
(* The value of a slot is what was written to its present user's           *)
(* descriptor since it was opened or read: CountsOwnWrites.                *)
(***************************************************************************)
THEOREM WritesAreCounted == Spec => []CountsOwnWrites
<1>1. IInv => CountsOwnWrites
  BY DEF IInv
<1> QED
  BY <1>1, Invariance, PTL
=============================================================================
