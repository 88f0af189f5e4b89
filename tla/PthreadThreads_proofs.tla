----------------------- MODULE PthreadThreads_proofs -----------------------
(***************************************************************************)
(* Proofs of the safety of thread creation, join, detach and exit, for any *)
(* number of tasks, entries and results.                                   *)
(*                                                                         *)
(* The invariants of PthreadThreads are not inductive as they stand: that  *)
(* a woken joiner finds its entry needs to know what each value of pc says *)
(* about the entry, the other task and the notification.  IInv says it, in *)
(* parts named for what they are about.                                    *)
(***************************************************************************)
EXTENDS PthreadThreads, TLAPS

Stopped == {"park", "suspended"}

\* Who is inside a locked section, and what main never does.
Lock ==
  /\ mux # NoTask => pc[mux] \in Locking
  /\ pc[Main] \notin Over \cup {"free", "born", "exit"}

\* The locals a task relies on point to something.
Locals ==
  \A t \in Task :
    /\ pc[t] \in {"create", "start", "wait", "reap", "delete"} => hnd[t] \in Child
    /\ pc[t] \in {"create", "start", "join", "wait", "reap", "detach"} => cur[t] \in Thread

\* A thread being created is known to its creator alone.
Creating ==
  /\ \A t \in Task : pc[t] = "create" =>
       /\ cur[t] \in heap /\ cur[t] \notin list
       /\ handle[cur[t]] = hnd[t]
       /\ joiner[cur[t]] = NoTask /\ ~ exited[cur[t]]
       /\ \A e \in list : handle[e] # hnd[t]
  /\ \A t \in Task : pc[t] = "start" => \E e \in list : handle[e] = hnd[t]
  /\ \A t \in Task : pc[t] \in {"create", "start"} =>
       /\ pc[hnd[t]] = "born" /\ ~ notified[hnd[t]]
       /\ \A u \in Task \ {t} :
            /\ pc[u] \in {"create", "start"} => hnd[u] # hnd[t]
            /\ pc[u] = "create" /\ pc[t] = "create" => cur[u] # cur[t]

\* What a joiner and the entry it waits on know of each other.
Joining ==
  \A e \in list : joiner[e] # NoTask =>
     /\ ~ exited[e]
     /\ pc[joiner[e]] \in {"wait", "reap"} /\ cur[joiner[e]] = e

\* The result of a stopped thread is there, and whoever must fetch it knows.
Ended ==
  /\ \A e \in list : pc[handle[e]] \in Stopped =>
       /\ ~ detached[e]
       /\ retval[e] = value[handle[e]]
       /\ \/ exited[e]
          \/ /\ joiner[e] # NoTask
             /\ notified[joiner[e]] \/ pc[joiner[e]] = "reap"
  /\ \A e \in list : exited[e] => pc[handle[e]] \in Stopped
  /\ \A t \in Task : pc[t] = "reap" => pc[hnd[t]] \in Stopped

\* Storage is gone before a task stops, and a new one has none.
TlsGone == \A c \in Child : pc[c] \in Over \cup {"exit", "free", "born"} => ~ tls[c]

\* A task being deleted has stopped, is unlisted, and has one deleter.
Deleting ==
  \A t \in Task : pc[t] = "delete" =>
     /\ pc[hnd[t]] \in Stopped
     /\ got[t] = value[hnd[t]]
     /\ \A e \in list : handle[e] # hnd[t]
     /\ \A u \in Task \ {t} : pc[u] = "delete" => hnd[u] # hnd[t]

IInv ==
  /\ TypeOK
  /\ Lock
  /\ Locals
  /\ Creating
  /\ HandlesIdentifyThreads
  /\ JoinerOwnsEntry
  /\ Joining
  /\ Ended
  /\ NotificationIsMeant
  /\ TlsGone
  /\ Deleting

-----------------------------------------------------------------------------
\* pthread_exit finds the caller's entry, and no other has its handle.
LEMMA FoundSelf ==
  ASSUME IInv, NEW t \in Task, pc[t] = "exit"
  PROVE  FindSelf(t) \in list /\ handle[FindSelf(t)] = t
  <1>1. t \in Child /\ Active(t)
    BY DEF IInv, Lock, Task, Active, Over
  <1>2. \E e \in list : handle[e] = t
    BY <1>1 DEF IInv, HandlesIdentifyThreads
  <1> QED
    BY <1>2 DEF FindSelf

-----------------------------------------------------------------------------
\* Each action preserves each part of the invariant.

\* Take preserves the invariant.
LEMMA TakeStep ==
  ASSUME IInv, NEW t \in Task, Take(t)
  PROVE  IInv'
  <1> USE DEF IInv, entries, locals, Take
  <1>1. TypeOK'
    BY DEF TypeOK
  <1>2. Lock'
    BY DEF Lock
  <1>3. Locals'
    BY DEF Locals
  <1>4. Creating'
    BY DEF Creating
  <1>5. HandlesIdentifyThreads'
    BY DEF Active, HandlesIdentifyThreads
  <1>6. JoinerOwnsEntry'
    BY DEF JoinerOwnsEntry
  <1>7. Joining'
    BY DEF Joining
  <1>8. Ended'
    BY DEF Ended
  <1>9. NotificationIsMeant'
    BY DEF NotificationIsMeant
  <1>10. TlsGone'
    BY DEF TlsGone
  <1>11. Deleting'
    BY DEF Deleting
  <1> QED
    BY <1>1, <1>2, <1>3, <1>4, <1>5, <1>6, <1>7, <1>8, <1>9, <1>10, <1>11

\* UseTls preserves the invariant.
LEMMA UseTlsStep ==
  ASSUME IInv, NEW t \in Task, UseTls(t)
  PROVE  IInv'
  <1> USE DEF IInv, entries, locals, UseTls
  <1>1. TypeOK'
    BY DEF TypeOK
  <1>2. Lock'
    BY DEF Lock
  <1>3. Locals'
    BY DEF Locals
  <1>4. Creating'
    BY DEF Creating
  <1>5. HandlesIdentifyThreads'
    BY DEF Active, HandlesIdentifyThreads
  <1>6. JoinerOwnsEntry'
    BY DEF JoinerOwnsEntry
  <1>7. Joining'
    BY DEF Joining
  <1>8. Ended'
    BY DEF Ended
  <1>9. NotificationIsMeant'
    BY DEF NotificationIsMeant
  <1>10. TlsGone'
    BY DEF Over, TlsGone
  <1>11. Deleting'
    BY DEF Deleting
  <1> QED
    BY <1>1, <1>2, <1>3, <1>4, <1>5, <1>6, <1>7, <1>8, <1>9, <1>10, <1>11

\* Create preserves the invariant.
LEMMA CreateStep ==
  ASSUME IInv, NEW t \in Task, Create(t)
  PROVE  IInv'
  <1> USE DEF IInv, entries, locals, Create, SetEntry
  <1>1. TypeOK'
    BY DEF Task, PC, Locking, TypeOK
  <1>2. Lock'
    BY DEF Task, Locking, Over, TypeOK, Lock
  <1>3. Locals'
    BY DEF TypeOK, Locals
  <1>4. Creating'
    BY DEF Task, TypeOK, Locals, Creating, HandlesIdentifyThreads,
           NotificationIsMeant
  <1>5. HandlesIdentifyThreads'
    BY DEF Task, Over, Active, TypeOK, HandlesIdentifyThreads
  <1>6. JoinerOwnsEntry'
    BY DEF TypeOK, JoinerOwnsEntry
  <1>7. Joining'
    BY DEF TypeOK, Joining
  <1>8. Ended'
    BY DEF Task, Stopped, TypeOK, Locals, HandlesIdentifyThreads, Ended
  <1>9. NotificationIsMeant'
    BY DEF Task, TypeOK, Locals, NotificationIsMeant
  <1>10. TlsGone'
    BY DEF Task, Over, TypeOK, TlsGone
  <1>11. Deleting'
    BY DEF Task, Stopped, TypeOK, Locals, Deleting
  <1> QED
    BY <1>1, <1>2, <1>3, <1>4, <1>5, <1>6, <1>7, <1>8, <1>9, <1>10, <1>11

\* CreateInsert preserves the invariant.
LEMMA CreateInsertStep ==
  ASSUME IInv, NEW t \in Task, CreateInsert(t)
  PROVE  IInv'
  <1> USE DEF IInv, entries, locals, CreateInsert, Unlock, Goto
  <1>1. TypeOK'
    BY DEF PC, TypeOK, Creating
  <1>2. Lock'
    BY DEF Over, Lock
  <1>3. Locals'
    BY DEF Locals
  <1>4. Creating'
    BY DEF TypeOK, Creating
  <1>5. HandlesIdentifyThreads'
    BY DEF Over, Active, Locals, Creating, HandlesIdentifyThreads
  <1>6. JoinerOwnsEntry'
    BY DEF JoinerOwnsEntry
  <1>7. Joining'
    BY DEF Creating, Joining
  <1>8. Ended'
    BY DEF Stopped, Creating, Ended
  <1>9. NotificationIsMeant'
    BY DEF NotificationIsMeant
  <1>10. TlsGone'
    BY DEF Over, TlsGone
  <1>11. Deleting'
    BY DEF Stopped, Creating, Deleting
  <1> QED
    BY <1>1, <1>2, <1>3, <1>4, <1>5, <1>6, <1>7, <1>8, <1>9, <1>10, <1>11

\* CreateStart preserves the invariant.
LEMMA CreateStartStep ==
  ASSUME IInv, NEW t \in Task, CreateStart(t)
  PROVE  IInv'
  <1> USE DEF IInv, entries, locals, CreateStart, Return, Goto
  <1>1. TypeOK'
    BY DEF Task, PC, TypeOK, Locals
  <1>2. Lock'
    BY DEF Locking, Over, Lock
  <1>3. Locals'
    BY DEF TypeOK, Locals
  <1>4. Creating'
    BY DEF TypeOK, Creating
  <1>5. HandlesIdentifyThreads'
    BY DEF Over, Active, HandlesIdentifyThreads
  <1>6. JoinerOwnsEntry'
    BY DEF JoinerOwnsEntry
  <1>7. Joining'
    BY DEF Joining
  <1>8. Ended'
    BY DEF Stopped, Ended
  <1>9. NotificationIsMeant'
    BY DEF Creating, NotificationIsMeant
  <1>10. TlsGone'
    BY DEF Over, TlsGone
  <1>11. Deleting'
    BY DEF Stopped, Deleting
  <1> QED
    BY <1>1, <1>2, <1>3, <1>4, <1>5, <1>6, <1>7, <1>8, <1>9, <1>10, <1>11

\* TaskFunc preserves the invariant.
LEMMA TaskFuncStep ==
  ASSUME IInv, NEW t \in Task, TaskFunc(t)
  PROVE  IInv'
  <1> USE DEF IInv, entries, locals, TaskFunc, NotifyWait, Goto
  <1>1. TypeOK'
    BY DEF PC, TypeOK
  <1>2. Lock'
    BY DEF Locking, Lock
  <1>3. Locals'
    BY DEF Locals
  <1>4. Creating'
    BY DEF Creating
  <1>5. HandlesIdentifyThreads'
    BY DEF Active, HandlesIdentifyThreads, NotificationIsMeant
  <1>6. JoinerOwnsEntry'
    BY DEF JoinerOwnsEntry
  <1>7. Joining'
    BY DEF Joining
  <1>8. Ended'
    BY DEF Stopped, Joining, Ended
  <1>9. NotificationIsMeant'
    BY DEF TypeOK, NotificationIsMeant
  <1>10. TlsGone'
    BY DEF Over, TlsGone, TypeOK
  <1>11. Deleting'
    BY DEF Stopped, Deleting
  <1> QED
    BY <1>1, <1>2, <1>3, <1>4, <1>5, <1>6, <1>7, <1>8, <1>9, <1>10, <1>11

\* Call preserves the invariant.
LEMMA CallStep ==
  ASSUME IInv, NEW t \in Task, Call(t)
  PROVE  IInv'
  <1> USE DEF IInv, entries, locals, Call, Goto
  <1>1. TypeOK'
    BY DEF PC, Locking, TypeOK
  <1>2. Lock'
    BY DEF Task, Locking, Over, TypeOK, Lock
  <1>3. Locals'
    BY DEF TypeOK, Locals
  <1>4. Creating'
    BY DEF Task, TypeOK, Locals, Creating
  <1>5. HandlesIdentifyThreads'
    BY DEF Task, Over, Active, TypeOK, HandlesIdentifyThreads
  <1>6. JoinerOwnsEntry'
    BY DEF TypeOK, JoinerOwnsEntry
  <1>7. Joining'
    BY DEF TypeOK, Joining
  <1>8. Ended'
    BY DEF Task, Stopped, TypeOK, Locals, HandlesIdentifyThreads, Ended
  <1>9. NotificationIsMeant'
    BY DEF Task, TypeOK, Locals, NotificationIsMeant
  <1>10. TlsGone'
    BY DEF Task, Over, TypeOK, TlsGone
  <1>11. Deleting'
    BY DEF Task, Stopped, TypeOK, Locals, Deleting
  <1> QED
    BY <1>1, <1>2, <1>3, <1>4, <1>5, <1>6, <1>7, <1>8, <1>9, <1>10, <1>11

\* Self preserves the invariant.
LEMMA SelfStep ==
  ASSUME IInv, NEW t \in Task, Self(t)
  PROVE  IInv'
  <1> USE DEF IInv, entries, locals, Self, Unlock, Return, Goto
  <1>1. TypeOK'
    BY DEF PC, TypeOK
  <1>2. Lock'
    BY DEF Over, Lock
  <1>3. Locals'
    BY DEF Locals
  <1>4. Creating'
    BY DEF Creating
  <1>5. HandlesIdentifyThreads'
    BY DEF Over, Active, HandlesIdentifyThreads
  <1>6. JoinerOwnsEntry'
    BY DEF JoinerOwnsEntry
  <1>7. Joining'
    BY DEF Joining
  <1>8. Ended'
    BY DEF Stopped, Ended
  <1>9. NotificationIsMeant'
    BY DEF NotificationIsMeant
  <1>10. TlsGone'
    BY DEF Over, TlsGone
  <1>11. Deleting'
    BY DEF Stopped, Deleting
  <1> QED
    BY <1>1, <1>2, <1>3, <1>4, <1>5, <1>6, <1>7, <1>8, <1>9, <1>10, <1>11

\* JoinRefused preserves the invariant.
LEMMA JoinRefusedStep ==
  ASSUME IInv, NEW t \in Task, JoinRefused(t)
  PROVE  IInv'
  <1> USE DEF IInv, entries, locals, JoinRefused, Unlock, Return, Goto
  <1>1. TypeOK'
    BY DEF PC, TypeOK
  <1>2. Lock'
    BY DEF Over, Lock
  <1>3. Locals'
    BY DEF TypeOK, Locals
  <1>4. Creating'
    BY DEF Creating
  <1>5. HandlesIdentifyThreads'
    BY DEF Over, Active, HandlesIdentifyThreads
  <1>6. JoinerOwnsEntry'
    BY DEF JoinerOwnsEntry
  <1>7. Joining'
    BY DEF Joining
  <1>8. Ended'
    BY DEF Stopped, Ended
  <1>9. NotificationIsMeant'
    BY DEF NotificationIsMeant
  <1>10. TlsGone'
    BY DEF Over, TlsGone
  <1>11. Deleting'
    BY DEF Stopped, Deleting
  <1> QED
    BY <1>1, <1>2, <1>3, <1>4, <1>5, <1>6, <1>7, <1>8, <1>9, <1>10, <1>11

\* JoinRunning preserves the invariant.
LEMMA JoinRunningStep ==
  ASSUME IInv, NEW t \in Task, JoinRunning(t)
  PROVE  IInv'
  <1> USE DEF IInv, entries, locals, JoinRunning, Unlock, Goto, MayJoin,
              MustWait
  <1>1. TypeOK'
    BY DEF PC, TypeOK
  <1>2. Lock'
    BY DEF Over, Lock
  <1>3. Locals'
    BY DEF TypeOK, Locals, HandlesIdentifyThreads
  <1>4. Creating'
    BY DEF Creating
  <1>5. HandlesIdentifyThreads'
    BY DEF Over, Active, HandlesIdentifyThreads
  <1>6. JoinerOwnsEntry'
    BY NullsAreNotAddresses DEF TypeOK, JoinerOwnsEntry
  <1>7. Joining'
    BY DEF TypeOK, Joining
  <1>8. Ended'
    BY DEF Stopped, Ended
  <1>9. NotificationIsMeant'
    BY DEF NotificationIsMeant
  <1>10. TlsGone'
    BY DEF Over, TlsGone
  <1>11. Deleting'
    BY DEF Stopped, Deleting
  <1> QED
    BY <1>1, <1>2, <1>3, <1>4, <1>5, <1>6, <1>7, <1>8, <1>9, <1>10, <1>11

\* JoinExited preserves the invariant.
LEMMA JoinExitedStep ==
  ASSUME IInv, NEW t \in Task, JoinExited(t)
  PROVE  IInv'
  <1> USE DEF IInv, entries, locals, JoinExited, Unlock, Goto, MayJoin,
              MustWait, PthreadDelete, SetEntry
  <1>1. TypeOK'
    BY DEF PC, TypeOK
  <1>2. Lock'
    BY DEF Over, Lock
  <1>3. Locals'
    BY DEF TypeOK, Locals, HandlesIdentifyThreads
  <1>4. Creating'
    BY DEF Stopped, Creating, Ended
  <1>5. HandlesIdentifyThreads'
    BY DEF Over, Stopped, Active, HandlesIdentifyThreads, Ended
  <1>6. JoinerOwnsEntry'
    BY NullsAreNotAddresses DEF JoinerOwnsEntry
  <1>7. Joining'
    BY DEF Joining
  <1>8. Ended'
    BY DEF Stopped, Ended
  <1>9. NotificationIsMeant'
    BY DEF Stopped, Ended, NotificationIsMeant
  <1>10. TlsGone'
    BY DEF Over, TlsGone
  <1>11. Deleting'
    BY DEF Stopped, TypeOK, HandlesIdentifyThreads, Ended, Deleting
  <1> QED
    BY <1>1, <1>2, <1>3, <1>4, <1>5, <1>6, <1>7, <1>8, <1>9, <1>10, <1>11

\* JoinWake preserves the invariant.
LEMMA JoinWakeStep ==
  ASSUME IInv, NEW t \in Task, JoinWake(t)
  PROVE  IInv'
  <1> USE DEF IInv, entries, locals, JoinWake, NotifyWait, Goto
  <1>1. TypeOK'
    BY DEF PC, Locking, TypeOK
  <1>2. Lock'
    BY DEF Locking, Over, Lock
  <1>3. Locals'
    BY DEF Locals
  <1>4. Creating'
    BY DEF Creating
  <1>5. HandlesIdentifyThreads'
    BY DEF Over, Active, HandlesIdentifyThreads
  <1>6. JoinerOwnsEntry'
    BY DEF JoinerOwnsEntry
  <1>7. Joining'
    BY DEF Joining
  <1>8. Ended'
    BY DEF Stopped, TypeOK, Ended, NotificationIsMeant
  <1>9. NotificationIsMeant'
    BY DEF TypeOK, NotificationIsMeant
  <1>10. TlsGone'
    BY DEF Over, TlsGone
  <1>11. Deleting'
    BY DEF Stopped, Deleting
  <1> QED
    BY <1>1, <1>2, <1>3, <1>4, <1>5, <1>6, <1>7, <1>8, <1>9, <1>10, <1>11

\* JoinReap preserves the invariant.
LEMMA JoinReapStep ==
  ASSUME IInv, NEW t \in Task, JoinReap(t)
  PROVE  IInv'
  <1> USE DEF IInv, entries, locals, JoinReap, Unlock, Goto, PthreadDelete,
              SetEntry
  <1>1. TypeOK'
    BY DEF PC, TypeOK, Locals
  <1>2. Lock'
    BY DEF Over, Lock
  <1>3. Locals'
    BY DEF Locals
  <1>4. Creating'
    BY DEF Stopped, Creating, JoinerOwnsEntry, Ended
  <1>5. HandlesIdentifyThreads'
    BY DEF Over, Stopped, Active, HandlesIdentifyThreads, JoinerOwnsEntry, Ended
  <1>6. JoinerOwnsEntry'
    BY DEF TypeOK, JoinerOwnsEntry
  <1>7. Joining'
    BY DEF Joining
  <1>8. Ended'
    BY DEF Stopped, Joining, Ended
  <1>9. NotificationIsMeant'
    BY DEF Stopped, JoinerOwnsEntry, Ended, NotificationIsMeant
  <1>10. TlsGone'
    BY DEF Over, TlsGone
  <1>11. Deleting'
    BY DEF Stopped, TypeOK, HandlesIdentifyThreads, JoinerOwnsEntry, Ended,
           Deleting
  <1> QED
    BY <1>1, <1>2, <1>3, <1>4, <1>5, <1>6, <1>7, <1>8, <1>9, <1>10, <1>11

\* JoinDelete preserves the invariant.
LEMMA JoinDeleteStep ==
  ASSUME IInv, NEW t \in Task, JoinDelete(t)
  PROVE  IInv'
  <1> USE DEF IInv, entries, locals, JoinDelete, DestroyTls, TaskDelete
  <1>1. TypeOK'
    BY DEF Task, PC, TypeOK, Locals
  <1>2. Lock'
    BY DEF Task, Locking, Over, Stopped, TypeOK, Lock, Deleting
  <1>3. Locals'
    BY DEF TypeOK, Locals
  <1>4. Creating'
    BY DEF Task, Stopped, TypeOK, Locals, Creating, Deleting
  <1>5. HandlesIdentifyThreads'
    BY DEF Task, Over, Active, TypeOK, HandlesIdentifyThreads, Deleting
  <1>6. JoinerOwnsEntry'
    BY DEF TypeOK, JoinerOwnsEntry
  <1>7. Joining'
    BY DEF Stopped, TypeOK, Joining, Deleting
  <1>8. Ended'
    BY DEF Task, Stopped, TypeOK, HandlesIdentifyThreads, JoinerOwnsEntry,
           Ended, Deleting
  <1>9. NotificationIsMeant'
    BY DEF Task, Stopped, TypeOK, Locals, JoinerOwnsEntry, NotificationIsMeant,
           Deleting
  <1>10. TlsGone'
    BY DEF Task, Over, TypeOK, TlsGone, Deleting, Stopped
  <1>11. Deleting'
    BY DEF Task, Stopped, TypeOK, Locals, Deleting
  <1> QED
    BY <1>1, <1>2, <1>3, <1>4, <1>5, <1>6, <1>7, <1>8, <1>9, <1>10, <1>11

\* DetachRefused preserves the invariant.
LEMMA DetachRefusedStep ==
  ASSUME IInv, NEW t \in Task, DetachRefused(t)
  PROVE  IInv'
  <1> USE DEF IInv, entries, locals, DetachRefused, Unlock, Return, Goto
  <1>1. TypeOK'
    BY DEF PC, TypeOK
  <1>2. Lock'
    BY DEF Over, Lock
  <1>3. Locals'
    BY DEF TypeOK, Locals
  <1>4. Creating'
    BY DEF Creating
  <1>5. HandlesIdentifyThreads'
    BY DEF Over, Active, HandlesIdentifyThreads
  <1>6. JoinerOwnsEntry'
    BY DEF JoinerOwnsEntry
  <1>7. Joining'
    BY DEF Joining
  <1>8. Ended'
    BY DEF Stopped, Ended
  <1>9. NotificationIsMeant'
    BY DEF NotificationIsMeant
  <1>10. TlsGone'
    BY DEF Over, TlsGone
  <1>11. Deleting'
    BY DEF Stopped, Deleting
  <1> QED
    BY <1>1, <1>2, <1>3, <1>4, <1>5, <1>6, <1>7, <1>8, <1>9, <1>10, <1>11

\* DetachRunning preserves the invariant.
LEMMA DetachRunningStep ==
  ASSUME IInv, NEW t \in Task, DetachRunning(t)
  PROVE  IInv'
  <1> USE DEF IInv, entries, locals, DetachRunning, Unlock, Return, Goto,
              MayDetach
  <1>1. TypeOK'
    BY DEF PC, TypeOK
  <1>2. Lock'
    BY DEF Over, Lock
  <1>3. Locals'
    BY DEF TypeOK, Locals
  <1>4. Creating'
    BY DEF Creating
  <1>5. HandlesIdentifyThreads'
    BY DEF Over, Active, HandlesIdentifyThreads
  <1>6. JoinerOwnsEntry'
    BY NullsAreNotAddresses DEF JoinerOwnsEntry
  <1>7. Joining'
    BY DEF Joining
  <1>8. Ended'
    BY DEF Stopped, Ended
  <1>9. NotificationIsMeant'
    BY DEF NotificationIsMeant
  <1>10. TlsGone'
    BY DEF Over, TlsGone
  <1>11. Deleting'
    BY DEF Stopped, Deleting
  <1> QED
    BY <1>1, <1>2, <1>3, <1>4, <1>5, <1>6, <1>7, <1>8, <1>9, <1>10, <1>11

\* DetachExited preserves the invariant.
LEMMA DetachExitedStep ==
  ASSUME IInv, NEW t \in Task, DetachExited(t)
  PROVE  IInv'
  <1> USE DEF IInv, entries, locals, DetachExited, Unlock, MayDetach,
              PthreadDelete, SetEntry, DestroyTls, TaskDelete
  <1>1. TypeOK'
    BY DEF Task, PC, TypeOK, HandlesIdentifyThreads
  <1>2. Lock'
    BY NullsAreNotAddresses DEF Task, Over, TypeOK, Lock
  <1>3. Locals'
    BY DEF TypeOK, Locals
  <1>4. Creating'
    BY DEF Task, Stopped, TypeOK, Locals, Creating, Ended
  <1>5. HandlesIdentifyThreads'
    BY DEF Task, Over, Active, TypeOK, HandlesIdentifyThreads
  <1>6. JoinerOwnsEntry'
    BY NullsAreNotAddresses DEF TypeOK, JoinerOwnsEntry
  <1>7. Joining'
    BY DEF Stopped, TypeOK, Joining, Ended
  <1>8. Ended'
    BY NullsAreNotAddresses
    DEF Task, Stopped, TypeOK, HandlesIdentifyThreads, JoinerOwnsEntry, Ended
  <1>9. NotificationIsMeant'
    BY NullsAreNotAddresses
    DEF Task, Stopped, TypeOK, HandlesIdentifyThreads, JoinerOwnsEntry, Ended,
        NotificationIsMeant
  <1>10. TlsGone'
    BY DEF Task, Over, TypeOK, TlsGone, Ended, Stopped
  <1>11. Deleting'
    BY DEF Task, Stopped, TypeOK, Locals, Deleting
  <1> QED
    BY <1>1, <1>2, <1>3, <1>4, <1>5, <1>6, <1>7, <1>8, <1>9, <1>10, <1>11

\* Exit preserves the invariant.
LEMMA ExitStep ==
  ASSUME IInv, NEW t \in Task, Exit(t)
  PROVE  IInv'
  <1> USE DEF IInv, entries, locals, Exit, Goto, DestroyTls
  <1>1. TypeOK'
    BY DEF PC, Locking, TypeOK
  <1>2. Lock'
    BY DEF Locking, Lock
  <1>3. Locals'
    BY DEF Locals
  <1>4. Creating'
    BY DEF Creating
  <1>5. HandlesIdentifyThreads'
    BY DEF Over, Active, HandlesIdentifyThreads
  <1>6. JoinerOwnsEntry'
    BY DEF JoinerOwnsEntry
  <1>7. Joining'
    BY DEF Joining
  <1>8. Ended'
    BY DEF Stopped, Ended
  <1>9. NotificationIsMeant'
    BY DEF NotificationIsMeant
  <1>10. TlsGone'
    BY DEF TypeOK, TlsGone
  <1>11. Deleting'
    BY DEF Stopped, Deleting
  <1> QED
    BY <1>1, <1>2, <1>3, <1>4, <1>5, <1>6, <1>7, <1>8, <1>9, <1>10, <1>11

\* ExitDetached preserves the invariant.
LEMMA ExitDetachedStep ==
  ASSUME IInv, NEW t \in Task, ExitDetached(t)
  PROVE  IInv'
  <1> USE DEF IInv, entries, locals, ExitDetached, Unlock, Goto, PthreadDelete,
              SetEntry
  <1>e. FindSelf(t) \in list /\ handle[FindSelf(t)] = t
    BY FoundSelf
  <1>1. TypeOK'
    BY <1>e DEF PC, Over, TypeOK
  <1>2. Lock'
    BY DEF Lock
  <1>3. Locals'
    BY DEF Locals
  <1>4. Creating'
    BY <1>e DEF Creating
  <1>5. HandlesIdentifyThreads'
    BY <1>e DEF Over, Active, TypeOK, HandlesIdentifyThreads
  <1>6. JoinerOwnsEntry'
    BY DEF JoinerOwnsEntry
  <1>7. Joining'
    BY DEF Joining
  <1>8. Ended'
    BY DEF Stopped, Ended
  <1>9. NotificationIsMeant'
    BY <1>e DEF NotificationIsMeant
  <1>10. TlsGone'
    BY DEF TlsGone
  <1>11. Deleting'
    BY <1>e DEF Deleting
  <1> QED
    BY <1>1, <1>2, <1>3, <1>4, <1>5, <1>6, <1>7, <1>8, <1>9, <1>10, <1>11

\* ExitJoinable preserves the invariant.
LEMMA ExitJoinableStep ==
  ASSUME IInv, NEW t \in Task, ExitJoinable(t)
  PROVE  IInv'
  <1> USE DEF IInv, entries, locals, ExitJoinable, Unlock, Goto, StoreResult
  <1>e. FindSelf(t) \in list /\ handle[FindSelf(t)] = t
    BY FoundSelf
  <1>1. TypeOK'
    <2>1. \E e \in list :
            /\ retval' = [retval EXCEPT ![e] = value[t]]
            /\ exited' \in {exited, [exited EXCEPT ![e] = TRUE]}
            /\ notified' \in {notified, [notified EXCEPT ![joiner[e]] = TRUE]}
      BY <1>e DEF TypeOK
    <2>2. pc' \in [Task -> PC]
      BY DEF TypeOK, PC, Over
    <2> QED
      BY <2>1, <2>2 DEF TypeOK
  <1>2. Lock'
    BY DEF Lock
  <1>3. Locals'
    BY DEF Locals
  <1>4. Creating'
    BY <1>e DEF Task, TypeOK, Locals, Creating, Joining
  <1>5. HandlesIdentifyThreads'
    BY <1>e DEF Active, HandlesIdentifyThreads
  <1>6. JoinerOwnsEntry'
    BY DEF JoinerOwnsEntry
  <1>7. Joining'
    BY DEF TypeOK, Joining
  <1>8. Ended'
    BY <1>e DEF Stopped, TypeOK, HandlesIdentifyThreads, Ended
  <1>9. NotificationIsMeant'
    BY <1>e
    DEF Stopped, TypeOK, JoinerOwnsEntry, Joining, Ended, NotificationIsMeant
  <1>10. TlsGone'
    BY DEF TlsGone
  <1>11. Deleting'
    BY <1>e DEF Deleting
  <1> QED
    BY <1>1, <1>2, <1>3, <1>4, <1>5, <1>6, <1>7, <1>8, <1>9, <1>10, <1>11

\* ExitDelete preserves the invariant.
LEMMA ExitDeleteStep ==
  ASSUME IInv, NEW t \in Task, ExitDelete(t)
  PROVE  IInv'
  <1> USE DEF IInv, entries, locals, ExitDelete, Goto
  <1>1. TypeOK'
    BY DEF PC, TypeOK
  <1>2. Lock'
    BY DEF Locking, Over, Lock
  <1>3. Locals'
    BY DEF Locals
  <1>4. Creating'
    BY DEF Creating
  <1>5. HandlesIdentifyThreads'
    BY DEF Active, HandlesIdentifyThreads
  <1>6. JoinerOwnsEntry'
    BY DEF JoinerOwnsEntry
  <1>7. Joining'
    BY DEF Joining
  <1>8. Ended'
    BY DEF Stopped, Ended
  <1>9. NotificationIsMeant'
    BY DEF NotificationIsMeant
  <1>10. TlsGone'
    BY DEF Over, TlsGone
  <1>11. Deleting'
    BY DEF Stopped, Deleting
  <1> QED
    BY <1>1, <1>2, <1>3, <1>4, <1>5, <1>6, <1>7, <1>8, <1>9, <1>10, <1>11

\* ExitSuspend preserves the invariant.
LEMMA ExitSuspendStep ==
  ASSUME IInv, NEW t \in Task, ExitSuspend(t)
  PROVE  IInv'
  <1> USE DEF IInv, entries, locals, ExitSuspend, Goto
  <1>1. TypeOK'
    BY DEF PC, Over, TypeOK
  <1>2. Lock'
    BY DEF Locking, Over, Lock
  <1>3. Locals'
    BY DEF Locals
  <1>4. Creating'
    BY DEF Creating
  <1>5. HandlesIdentifyThreads'
    BY DEF Over, Active, HandlesIdentifyThreads
  <1>6. JoinerOwnsEntry'
    BY DEF JoinerOwnsEntry
  <1>7. Joining'
    BY DEF Joining
  <1>8. Ended'
    BY DEF Stopped, Ended
  <1>9. NotificationIsMeant'
    BY DEF NotificationIsMeant
  <1>10. TlsGone'
    BY DEF Over, TlsGone
  <1>11. Deleting'
    BY DEF Stopped, Deleting
  <1> QED
    BY <1>1, <1>2, <1>3, <1>4, <1>5, <1>6, <1>7, <1>8, <1>9, <1>10, <1>11

-----------------------------------------------------------------------------
LEMMA InitIInv == Init => IInv
  BY NullsAreNotAddresses
  DEF Init, IInv, TypeOK, Lock, Locals, Creating, HandlesIdentifyThreads,
      JoinerOwnsEntry, Joining, Ended, NotificationIsMeant, TlsGone, Deleting,
      Task, PC, Over, Active

LEMMA NextIInv ==
  ASSUME IInv, [Next]_vars
  PROVE  IInv'
  <1>1. CASE Next
    <2> PICK t \in Task :
          Take(t) \/ UseTls(t) \/ Create(t) \/ Call(t) \/ Exit(t) \/ Continue(t)
      BY <1>1 DEF Next
    <2> QED
      BY TakeStep, UseTlsStep, CreateStep, CreateInsertStep, CreateStartStep,
         TaskFuncStep, CallStep, SelfStep, JoinRefusedStep, JoinRunningStep,
         JoinExitedStep, JoinWakeStep, JoinReapStep, JoinDeleteStep,
         DetachRefusedStep, DetachRunningStep, DetachExitedStep, ExitStep,
         ExitDetachedStep, ExitJoinableStep, ExitDeleteStep, ExitSuspendStep
      DEF Continue
  <1>2. CASE UNCHANGED vars
    BY <1>2
    DEF vars, entries, locals, IInv, TypeOK, Lock, Locals, Creating,
        HandlesIdentifyThreads, JoinerOwnsEntry, Joining, Ended,
        NotificationIsMeant, TlsGone, Deleting, Active
  <1> QED
    BY <1>1, <1>2

(***************************************************************************)
(* What each value of pc says of the entry, the other task, the storage    *)
(* and the notification holds in every reachable state.                    *)
(***************************************************************************)
THEOREM Invariance == Spec => []IInv
  <1>1. Init => IInv
    BY InitIInv
  <1>2. IInv /\ [Next]_vars => IInv'
    BY NextIInv
  <1> QED
    BY <1>1, <1>2, PTL DEF Spec

\* The types; an entry is in the list only while it is allocated.
THEOREM TypeCorrect == Spec => []TypeOK
  <1>1. IInv => TypeOK
    BY DEF IInv
  <1> QED
    BY <1>1, Invariance, PTL

\* pthread_find succeeds where it is asserted to, and finds the right entry,
\* although the addresses of entries and of tasks are reused.
THEOREM HandlesAreUnique == Spec => []HandlesIdentifyThreads
  <1>1. IInv => HandlesIdentifyThreads
    BY DEF IInv
  <1> QED
    BY <1>1, Invariance, PTL

\* The entry a joiner comes back to is still the one it asked for.
THEOREM JoinIsSafe == Spec => []JoinerOwnsEntry
  <1>1. IInv => JoinerOwnsEntry
    BY DEF IInv
  <1> QED
    BY <1>1, Invariance, PTL

\* A task is deleted by one other task at most, and when nothing of it is
\* left to run: it holds no lock and its thread-local storage is gone.
THEOREM DeleteNeverRaces == Spec => []DeleteIsSafe
  <1>1. ASSUME IInv PROVE DeleteIsSafe
    <2>1. \A c \in Child : pc[c] \in Stopped => Deletable(c)
      BY <1>1, NullsAreNotAddresses
      DEF IInv, Lock, TlsGone, Deletable, Stopped, Over, Locking, Task
    <2>2. \A t \in Task : pc[t] = "delete" =>
            /\ hnd[t] \in Child /\ pc[hnd[t]] \in Stopped
            /\ \A e \in list : handle[e] # hnd[t]
            /\ \A u \in Task \ {t} : pc[u] = "delete" => hnd[u] # hnd[t]
      BY <1>1 DEF IInv, Locals, Deleting
    <2>3. \A e \in list : exited[e] => handle[e] \in Child /\ pc[handle[e]] \in Stopped
      BY <1>1 DEF IInv, HandlesIdentifyThreads, Ended
    <2> QED
      BY <2>1, <2>2, <2>3 DEF DeleteIsSafe
  <1> QED
    BY <1>1, Invariance, PTL

\* The one way into the wait of pthread_join is past its checks.
LEMMA OnlyJoinWaits ==
  ASSUME IInv, NEW t \in Task, ~ JoinRunning(t),
         Take(t) \/ UseTls(t) \/ Create(t) \/ Call(t) \/ Exit(t) \/ Continue(t)
  PROVE  \A u \in Task : pc'[u] = "wait" => pc[u] = "wait" /\ hnd'[u] = hnd[u]
  <1> USE DEF IInv, TypeOK, entries, locals, Goto, Return
  <1>1. CASE Take(t) \/ UseTls(t) \/ Create(t) \/ Call(t) \/ Exit(t)
    BY <1>1 DEF Take, UseTls, Create, Call, Exit
  <1>2. CASE CreateInsert(t) \/ CreateStart(t) \/ TaskFunc(t) \/ Self(t)
    BY <1>2 DEF CreateInsert, CreateStart, TaskFunc, Self
  <1>3. CASE JoinRefused(t) \/ JoinExited(t) \/ JoinWake(t) \/ JoinReap(t)
    BY <1>3 DEF JoinRefused, JoinExited, JoinWake, JoinReap
  <1>4. CASE JoinDelete(t) \/ DetachRefused(t) \/ DetachRunning(t) \/ DetachExited(t)
    BY <1>4
    DEF JoinDelete, DetachRefused, DetachRunning, DetachExited, TaskDelete
  <1>5. CASE ExitDetached(t) \/ ExitJoinable(t) \/ ExitDelete(t) \/ ExitSuspend(t)
    BY <1>5 DEF ExitDetached, ExitJoinable, ExitDelete, ExitSuspend
  <1> QED
    BY <1>1, <1>2, <1>3, <1>4, <1>5 DEF Continue

\* A task that enters the wait has found nobody that waits for it.
LEMMA MutualJoinStep ==
  ASSUME IInv, NoMutualJoin, [Next]_vars
  PROVE  NoMutualJoin'
  <1>1. CASE UNCHANGED vars
    BY <1>1 DEF vars, locals, NoMutualJoin
  <1>2. CASE Next
    <2> PICK t \in Task :
          Take(t) \/ UseTls(t) \/ Create(t) \/ Call(t) \/ Exit(t) \/ Continue(t)
      BY <1>2 DEF Next
    <2>1. CASE ~ JoinRunning(t)
      BY <2>1, OnlyJoinWaits DEF NoMutualJoin
    <2>2. CASE JoinRunning(t)
      <3>1. /\ \A u \in Task \ {t} : pc'[u] = pc[u] /\ hnd'[u] = hnd[u]
            /\ hnd'[t] = handle[cur[t]] /\ hnd'[t] # t
            /\ ~ \E c \in list : handle[c] = t /\ joiner[c] = hnd'[t]
        BY <2>2 DEF JoinRunning, MayJoin, Goto, IInv, TypeOK
      <3>2. \A u \in Task \ {t} : pc[u] = "wait" /\ hnd[u] = t =>
              \E c \in list : handle[c] = t /\ joiner[c] = u
        BY DEF IInv, JoinerOwnsEntry
      <3> QED
        BY <3>1, <3>2 DEF NoMutualJoin
    <2> QED
      BY <2>1, <2>2
  <1> QED
    BY <1>1, <1>2

\* Two threads never wait for each other in pthread_join.
THEOREM MutualJoinIsRefused == Spec => []NoMutualJoin
  <1>1. Init => NoMutualJoin
    BY DEF Init, NoMutualJoin
  <1>2. IInv /\ NoMutualJoin /\ [Next]_vars => NoMutualJoin'
    BY MutualJoinStep
  <1> QED
    BY <1>1, <1>2, Invariance, PTL DEF Spec

\* What pthread_join returns is what its thread passed to pthread_exit.
THEOREM JoinIsCorrect == Spec => []JoinReturnsValue
  <1>1. IInv => JoinReturnsValue
    BY DEF IInv, Deleting, JoinReturnsValue
  <1> QED
    BY <1>1, Invariance, PTL

\* A joiner that waits for a thread which is past its pthread_exit.
JoinerIsNotified == \A t \in Task : pc[t] = "wait" /\ pc[hnd[t]] \in Over => notified[t]

\* pthread_exit may come at any moment before or after pthread_join has begun to
\* wait: once it has stopped or deleted the thread, the joiner has its wake-up.
THEOREM WakeUpIsNotLost == Spec => []JoinerIsNotified
  <1>1. IInv => JoinerIsNotified
    <2> SUFFICES ASSUME IInv, NEW t \in Task, pc[t] = "wait", pc[hnd[t]] \in Over
                 PROVE  notified[t]
      BY DEF JoinerIsNotified
    <2>1. /\ cur[t] \in list /\ joiner[cur[t]] = t /\ handle[cur[t]] = hnd[t]
          /\ pc[hnd[t]] # "leave" /\ t # NoTask
      BY NullsAreNotAddresses DEF IInv, TypeOK, JoinerOwnsEntry, HandlesIdentifyThreads, Task
    <2>2. pc[hnd[t]] \in Stopped /\ ~ exited[cur[t]]
      BY <2>1 DEF IInv, Joining, Over, Stopped
    <2> QED
      BY <2>1, <2>2 DEF IInv, Ended
  <1> QED
    BY <1>1, Invariance, PTL

\* No notification is taken for another: no early return from a join, no
\* early start of a thread.
THEOREM NotificationsAreMeant == Spec => []NotificationIsMeant
  <1>1. IInv => NotificationIsMeant
    BY DEF IInv
  <1> QED
    BY <1>1, Invariance, PTL

\* No step but pthread_exit takes a storage pointer away.
LEMMA ReleaseStep ==
  ASSUME IInv, [Next]_vars
  PROVE  ReleasedByExit
  <1> USE DEF IInv, TypeOK, ReleasedByExit
  <1>1. CASE UNCHANGED vars
    BY <1>1 DEF vars
  <1>2. CASE Next
    <2> PICK t \in Task :
          Take(t) \/ UseTls(t) \/ Create(t) \/ Call(t) \/ Exit(t) \/ Continue(t)
      BY <1>2 DEF Next
    <2>1. CASE UseTls(t)
      BY <2>1 DEF UseTls
    <2>2. CASE Exit(t)
      BY <2>2 DEF Exit, Goto, DestroyTls
    <2>3. CASE TaskFunc(t)
      BY <2>3 DEF TaskFunc, TlsGone, Task, Lock
    <2>4. CASE JoinDelete(t)
      BY <2>4
      DEF JoinDelete, DestroyTls, Deleting, TlsGone, Locals, Stopped, Over
    <2>5. CASE DetachExited(t)
      BY <2>5
      DEF DetachExited, MayDetach, DestroyTls, HandlesIdentifyThreads, Ended,
          TlsGone, Stopped, Over
    <2> QED
      BY <2>1, <2>2, <2>3, <2>4, <2>5
      DEF Continue, Take, Create, Call, CreateInsert, CreateStart, Self,
          JoinRefused, JoinRunning, JoinExited, JoinWake, JoinReap,
          DetachRefused, DetachRunning, ExitDetached, ExitJoinable, ExitDelete,
          ExitSuspend
  <1> QED
    BY <1>1, <1>2

\* A task's thread-local storage is released by its own pthread_exit only.
THEOREM StorageIsOwn == Spec => OnlyExitReleasesTls
  <1>1. IInv /\ [Next]_vars => [ReleasedByExit]_vars
    BY ReleaseStep
  <1> QED
    BY <1>1, Invariance, PTL DEF Spec, OnlyExitReleasesTls
=============================================================================
