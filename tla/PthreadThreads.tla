--------------------------- MODULE PthreadThreads ---------------------------
(***************************************************************************)
(* Thread creation, exit, join and detach of the pthread layer over        *)
(* FreeRTOS (pico-std/c/esp-idf/src/pthread.c).                            *)
(*                                                                         *)
(* A pthread_t is the address of an entry of s_threads_list; a task handle *)
(* is the address of a FreeRTOS TCB.  Both memories are reused once freed, *)
(* so Thread and Child are pools of addresses, not of logical threads: a   *)
(* behaviour may create any number of threads.  Any task running user code *)
(* may pass any pthread_t, stale ones included, to join and detach.        *)
(*                                                                         *)
(* All list accesses are made under s_threads_mux.  A locked section is    *)
(* two steps: Take, and the section's body with its xSemaphoreGive; other  *)
(* tasks run in between.  Priorities are configurable per thread, so any   *)
(* ready task may run next.  A failed allocation in pthread_create frees   *)
(* what was allocated and returns: it leaves this state unchanged.         *)
(***************************************************************************)

CONSTANTS Thread,    \* addresses of esp_pthread_t entries
          Child,     \* addresses of the TCBs of pthread tasks
          Main,      \* the task that runs Rust's main: not a pthread
          Value,     \* what a thread function may return
          NoThread, NoTask, NoValue   \* null pointers

Task == Child \cup {Main}

ASSUME NullsAreNotAddresses ==
  /\ Main \notin Child
  /\ NoTask \notin Task
  /\ NoThread \notin Thread
  /\ NoValue \notin Value

VARIABLES
  list,      \* entries in s_threads_list
  heap,      \* entries that are allocated
  handle, joiner, exited, detached, retval,  \* fields of the entries
  mux,       \* holder of s_threads_mux
  pc,        \* where each task is in the code
  cur,       \* each task's local: the entry it works on
  hnd,       \* each task's local: the task handle it works on
  got,       \* join's local child_task_retval
  value,     \* pthread_exit's argument value_ptr
  notified,  \* a pending FreeRTOS notification (index 0, the only one used)
  tls        \* the task's thread-local-storage pointer is not NULL

entries == <<list, heap, handle, joiner, exited, detached, retval>>
locals  == <<cur, hnd, got, value>>
vars == <<entries, mux, pc, locals, notified, tls>>

-----------------------------------------------------------------------------
\* Calls that work on the list under s_threads_mux.
Locking == {"create", "join", "reap", "detach", "exit", "self"}

\* A task is past its thread function for ever.
Over == {"leave", "park", "suspended"}

PC == Locking \cup Over \cup {"free", "born", "run", "start", "wait", "delete"}

Init ==
  /\ list = {} /\ heap = {}
  /\ handle   = [e \in Thread |-> NoTask]
  /\ joiner   = [e \in Thread |-> NoTask]
  /\ exited   = [e \in Thread |-> FALSE]
  /\ detached = [e \in Thread |-> FALSE]
  /\ retval   = [e \in Thread |-> NoValue]
  /\ mux = NoTask
  /\ pc    = [t \in Task |-> IF t = Main THEN "run" ELSE "free"]
  /\ cur   = [t \in Task |-> NoThread]
  /\ hnd   = [t \in Task |-> NoTask]
  /\ got   = [t \in Task |-> NoValue]
  /\ value = [t \in Task |-> NoValue]
  /\ notified = [t \in Task |-> FALSE]
  /\ tls      = [t \in Task |-> FALSE]

\* xSemaphoreTake(s_threads_mux, portMAX_DELAY) in each of the calls.
Take(t) ==
  /\ pc[t] \in Locking
  /\ mux = NoTask
  /\ mux' = t
  /\ UNCHANGED <<entries, pc, locals, notified, tls>>

\* The fields of a new entry, of the task h, and those of a freed one.
SetEntry(e, h, d) ==
  /\ handle'   = [handle   EXCEPT ![e] = h]
  /\ joiner'   = [joiner   EXCEPT ![e] = NoTask]
  /\ exited'   = [exited   EXCEPT ![e] = FALSE]
  /\ detached' = [detached EXCEPT ![e] = d]
  /\ retval'   = [retval   EXCEPT ![e] = NoValue]

\* Variants: the entry is freed and stays linked; it is not freed at all.
FreeUnlinked(e) ==
  heap' = heap \ {e} /\ SetEntry(e, NoTask, FALSE) /\ UNCHANGED list

KeepEntry(e) == UNCHANGED entries

\* pthread_delete: SLIST_REMOVE and free.
PthreadDelete(e) ==
  /\ list' = list \ {e}
  /\ heap' = heap \ {e}
  /\ SetEntry(e, NoTask, FALSE)

\* A task leaves a locked section, and its locals die unless it goes on.
Unlock(t) == mux = t /\ mux' = NoTask

Goto(t, p) == pc' = [pc EXCEPT ![t] = p]

Return(t) ==
  /\ Goto(t, "run")
  /\ cur' = [cur EXCEPT ![t] = NoThread]
  /\ hnd' = [hnd EXCEPT ![t] = NoTask]
  /\ got' = [got EXCEPT ![t] = NoValue]
  /\ UNCHANGED value

\* Variants: nothing is cleaned up; the caller's pointer is reset in any case.
DestroyNothing(t, h) == UNCHANGED tls
DestroyCallers(t, h) == tls' = [tls EXCEPT ![t] = FALSE]

(***************************************************************************)
(* pthread_internal_local_storage_destructor_callback(h) called by t: if   *)
(* h has storage it is cleaned up, and the pointer that is then reset is   *)
(* the one of the CALLING task.                                            *)
(***************************************************************************)
DestroyTls(t, h) == tls' = IF tls[h] THEN [tls EXCEPT ![t] = FALSE] ELSE tls

\* Variant: a notification is looked at and stays pending.
PeekNotification(t) == notified[t] /\ UNCHANGED notified

\* xTaskNotifyWait(0, 0, NULL, portMAX_DELAY) returns.
NotifyWait(t) == notified[t] /\ notified' = [notified EXCEPT ![t] = FALSE]

\* vTaskDelete(h) by task t, in which t's call returns.
TaskDelete(t, h) ==
  /\ pc' = [pc EXCEPT ![h] = "free", ![t] = "run"]
  /\ value' = [value EXCEPT ![h] = NoValue]
  /\ cur' = [cur EXCEPT ![t] = NoThread]
  /\ hnd' = [hnd EXCEPT ![t] = NoTask]
  /\ got' = [got EXCEPT ![t] = NoValue]

-----------------------------------------------------------------------------
\* User code: the first pthread_setspecific, or a configuration being set.
UseTls(t) ==
  /\ pc[t] = "run"
  /\ tls' = [tls EXCEPT ![t] = TRUE]
  /\ UNCHANGED <<entries, mux, pc, locals, notified>>

\* pthread_create up to its lock: entry, task and the entry's handle.
Create(t) ==
  /\ pc[t] = "run"
  /\ \E e \in Thread \ heap, c \in Child, d \in BOOLEAN :
       /\ pc[c] = "free"
       /\ heap' = heap \cup {e}
       /\ SetEntry(e, c, d)
       /\ pc'  = [pc EXCEPT ![t] = "create", ![c] = "born"]
       /\ cur' = [cur EXCEPT ![t] = e]
       /\ hnd' = [hnd EXCEPT ![t] = c]
       /\ UNCHANGED <<list, mux, got, value, notified, tls>>

CreateInsert(t) ==
  /\ pc[t] = "create" /\ Unlock(t)
  /\ list' = list \cup {cur[t]}
  /\ Goto(t, "start")
  /\ UNCHANGED <<heap, handle, joiner, exited, detached, retval, locals, notified, tls>>

\* xTaskNotify(xHandle); *thread is written when the child may already run.
CreateStart(t) ==
  /\ pc[t] = "start"
  /\ notified' = [notified EXCEPT ![hnd[t]] = TRUE]
  /\ Return(t)
  /\ UNCHANGED <<entries, mux, tls>>

\* pthread_task_func: wait for the start, perhaps inherit a configuration.
TaskFunc(t) ==
  /\ pc[t] = "born" /\ NotifyWait(t)
  /\ \E inherit_cfg \in BOOLEAN : tls' = [tls EXCEPT ![t] = inherit_cfg]
  /\ Goto(t, "run")
  /\ UNCHANGED <<entries, mux, locals>>

\* A call of pthread_join, pthread_detach or (by a pthread) pthread_self.
Call(t) ==
  /\ pc[t] = "run"
  /\ \/ \E e \in Thread, f \in {"join", "detach"} :
          Goto(t, f) /\ cur' = [cur EXCEPT ![t] = e]
     \/ t # Main /\ Goto(t, "self") /\ UNCHANGED cur
  /\ UNCHANGED <<entries, mux, hnd, got, value, notified, tls>>

Self(t) ==
  /\ pc[t] = "self" /\ Unlock(t)
  /\ Return(t)
  /\ UNCHANGED <<entries, notified, tls>>

-----------------------------------------------------------------------------
\* Variant: no check that the joined thread is not joining the caller.
MayJoinEachOther(t, e) ==
  e \in list /\ ~ detached[e] /\ joiner[e] = NoTask /\ handle[e] # t

\* The checks of pthread_join; none holds back a cycle of three or more.
MayJoin(t, e) ==
  /\ e \in list
  /\ ~ detached[e]
  /\ joiner[e] = NoTask
  /\ handle[e] # t
  /\ ~ \E c \in list : handle[c] = t /\ joiner[c] = handle[e]

\* Variant: the joiner waits for a thread that has exited, too.
AlwaysWait(e) == TRUE

MustWait(e) == ~ exited[e]

\* ESRCH, EDEADLK or EINVAL.
JoinRefused(t) ==
  /\ pc[t] = "join" /\ Unlock(t)
  /\ ~ MayJoin(t, cur[t])
  /\ Return(t)
  /\ UNCHANGED <<entries, notified, tls>>

JoinRunning(t) ==
  /\ pc[t] = "join" /\ Unlock(t)
  /\ MayJoin(t, cur[t]) /\ MustWait(cur[t])
  /\ joiner' = [joiner EXCEPT ![cur[t]] = t]
  /\ hnd' = [hnd EXCEPT ![t] = handle[cur[t]]]
  /\ Goto(t, "wait")
  /\ UNCHANGED <<list, heap, handle, exited, detached, retval>>
  /\ UNCHANGED <<cur, got, value, notified, tls>>

JoinExited(t) ==
  /\ pc[t] = "join" /\ Unlock(t)
  /\ MayJoin(t, cur[t]) /\ ~ MustWait(cur[t])
  /\ hnd' = [hnd EXCEPT ![t] = handle[cur[t]]]
  /\ got' = [got EXCEPT ![t] = retval[cur[t]]]
  /\ PthreadDelete(cur[t])
  /\ Goto(t, "delete")
  /\ UNCHANGED <<cur, value, notified, tls>>

\* xTaskNotifyWait returns and the joiner goes for the lock again.
JoinWake(t) ==
  /\ pc[t] = "wait" /\ NotifyWait(t)
  /\ Goto(t, "reap")
  /\ UNCHANGED <<entries, mux, locals, tls>>

JoinReap(t) ==
  /\ pc[t] = "reap" /\ Unlock(t)
  /\ got' = [got EXCEPT ![t] = retval[cur[t]]]
  /\ PthreadDelete(cur[t])
  /\ Goto(t, "delete")
  /\ UNCHANGED <<cur, hnd, value, notified, tls>>

\* The last part of pthread_join, outside the lock.
JoinDelete(t) ==
  /\ pc[t] = "delete"
  /\ DestroyTls(t, hnd[t])
  /\ TaskDelete(t, hnd[t])
  /\ UNCHANGED <<entries, mux, notified>>

-----------------------------------------------------------------------------
\* Variant: a thread someone waits for may be detached.
MayDetachUnheld(e) == e \in list /\ ~ detached[e]

MayDetach(e) == e \in list /\ ~ detached[e] /\ joiner[e] = NoTask

\* ESRCH or EINVAL.
DetachRefused(t) ==
  /\ pc[t] = "detach" /\ Unlock(t)
  /\ ~ MayDetach(cur[t])
  /\ Return(t)
  /\ UNCHANGED <<entries, notified, tls>>

DetachRunning(t) ==
  /\ pc[t] = "detach" /\ Unlock(t)
  /\ MayDetach(cur[t]) /\ ~ exited[cur[t]]
  /\ detached' = [detached EXCEPT ![cur[t]] = TRUE]
  /\ Return(t)
  /\ UNCHANGED <<list, heap, handle, joiner, exited, retval, notified, tls>>

\* The detacher deletes the stopped task itself, s_threads_mux still held.
DetachExited(t) ==
  /\ pc[t] = "detach" /\ Unlock(t)
  /\ MayDetach(cur[t]) /\ exited[cur[t]]
  /\ PthreadDelete(cur[t])
  /\ DestroyTls(t, handle[cur[t]])
  /\ TaskDelete(t, handle[cur[t]])
  /\ UNCHANGED notified

-----------------------------------------------------------------------------
\* pthread_exit, called or reached by returning: the cleanup, then the lock.
Exit(t) ==
  /\ t # Main /\ pc[t] = "run"
  /\ \E v \in Value : value' = [value EXCEPT ![t] = v]
  /\ DestroyTls(t, t)
  /\ Goto(t, "exit")
  /\ UNCHANGED <<entries, mux, cur, hnd, got, notified>>

\* pthread_find(xTaskGetCurrentTaskHandle()), asserted to succeed.
FindSelf(t) == CHOOSE e \in list : handle[e] = t

ExitDetached(t) ==
  /\ pc[t] = "exit" /\ Unlock(t)
  /\ LET e == FindSelf(t) IN
       /\ detached[e]
       /\ PthreadDelete(e)
  /\ Goto(t, "leave")
  /\ UNCHANGED <<locals, notified, tls>>

\* Variant: the result is only stored when no one waits yet.
StoreUnlessAwaited(t, e) ==
  retval' = IF joiner[e] = NoTask THEN [retval EXCEPT ![e] = value[t]] ELSE retval

StoreResult(t, e) == retval' = [retval EXCEPT ![e] = value[t]]

ExitJoinable(t) ==
  /\ pc[t] = "exit" /\ Unlock(t)
  /\ LET e == FindSelf(t) IN
       /\ ~ detached[e]
       /\ StoreResult(t, e)
       /\ IF joiner[e] # NoTask
          THEN /\ notified' = [notified EXCEPT ![joiner[e]] = TRUE]
               /\ UNCHANGED exited
          ELSE /\ exited' = [exited EXCEPT ![e] = TRUE]
               /\ UNCHANGED notified
  /\ Goto(t, "park")
  /\ UNCHANGED <<list, heap, handle, joiner, detached, locals, tls>>

\* vTaskDelete(NULL); the idle task frees the TCB, which no one refers to.
ExitDelete(t) ==
  /\ pc[t] = "leave"
  /\ Goto(t, "free")
  /\ value' = [value EXCEPT ![t] = NoValue]
  /\ UNCHANGED <<entries, mux, cur, hnd, got, notified, tls>>

\* vTaskSuspend(NULL): the task never runs again.
ExitSuspend(t) ==
  /\ pc[t] = "park"
  /\ Goto(t, "suspended")
  /\ UNCHANGED <<entries, mux, locals, notified, tls>>

-----------------------------------------------------------------------------
\* What a task does of itself once it is in a call.
Continue(t) ==
  \/ CreateInsert(t) \/ CreateStart(t) \/ TaskFunc(t) \/ Self(t)
  \/ JoinRefused(t) \/ JoinRunning(t) \/ JoinExited(t)
  \/ JoinWake(t) \/ JoinReap(t) \/ JoinDelete(t)
  \/ DetachRefused(t) \/ DetachRunning(t) \/ DetachExited(t)
  \/ ExitDetached(t) \/ ExitJoinable(t) \/ ExitDelete(t) \/ ExitSuspend(t)

Next == \E t \in Task :
  Take(t) \/ UseTls(t) \/ Create(t) \/ Call(t) \/ Exit(t) \/ Continue(t)

Spec == Init /\ [][Next]_vars

(***************************************************************************)
(* Every task that is ready eventually runs (round robin within a          *)
(* priority, and tasks of a higher priority block in the end), and a       *)
(* semaphore that keeps being released is eventually obtained (its waiters *)
(* are queued by priority, then by arrival).  User code owes nothing.      *)
(***************************************************************************)
Fairness == \A t \in Task : WF_vars(Continue(t)) /\ SF_vars(Take(t))

FairSpec == Spec /\ Fairness

-----------------------------------------------------------------------------
\* Every variable keeps its type, and the list links allocated entries only
\* (SLIST_REMOVE comes before every free).
TypeOK ==
  /\ heap \subseteq Thread /\ list \subseteq heap
  /\ handle   \in [Thread -> Child \cup {NoTask}]
  /\ joiner   \in [Thread -> Task \cup {NoTask}]
  /\ exited   \in [Thread -> BOOLEAN]
  /\ detached \in [Thread -> BOOLEAN]
  /\ retval   \in [Thread -> Value \cup {NoValue}]
  /\ mux \in Task \cup {NoTask}
  /\ pc    \in [Task -> PC]
  /\ cur   \in [Task -> Thread \cup {NoThread}]
  /\ hnd   \in [Task -> Child \cup {NoTask}]
  /\ got   \in [Task -> Value \cup {NoValue}]
  /\ value \in [Task -> Value \cup {NoValue}]
  /\ notified \in [Task -> BOOLEAN]
  /\ tls      \in [Task -> BOOLEAN]

\* Live tasks that user code or a call of the layer still runs in.
Active(c) == pc[c] \notin {"free"} \cup Over

(***************************************************************************)
(* A handle in the list names a task that has not been deleted, and names  *)
(* one entry only: pthread_find, which pthread_exit and pthread_self       *)
(* assert to succeed, finds the caller's own entry although freed TCBs and *)
(* entries are reused.  A pthread past its start is in the list until it   *)
(* leaves its own locked section of pthread_exit.                          *)
(***************************************************************************)
HandlesIdentifyThreads ==
  /\ \A e \in list : handle[e] \in Child /\ pc[handle[e]] \notin {"free", "leave"}
  /\ \A e, f \in list : handle[e] = handle[f] => e = f
  /\ \A c \in Child : Active(c) /\ pc[c] # "born" => \E e \in list : handle[e] = c

(***************************************************************************)
(* While a task waits in pthread_join, or is on its way to read the result *)
(* after being woken, the entry it will read is in the list, is still that *)
(* of the thread it asked for, names it as the one joiner and cannot be    *)
(* detached: no other join, detach or exit frees it underneath.            *)
(***************************************************************************)
JoinerOwnsEntry ==
  \A t \in Task : pc[t] \in {"wait", "reap"} =>
     /\ cur[t] \in list
     /\ joiner[cur[t]] = t
     /\ handle[cur[t]] = hnd[t]
     /\ ~ detached[cur[t]]

(***************************************************************************)
(* When a task is about to be deleted by the one that joined it, it has    *)
(* left user code for ever, holds no mutex, has no thread-local storage    *)
(* left, is in no entry and is deleted by no one else; and a stopped       *)
(* thread that detach may delete is in the same condition.                 *)
(***************************************************************************)
Deletable(c) == pc[c] \in {"park", "suspended"} /\ mux # c /\ ~ tls[c]

DeleteIsSafe ==
  /\ \A t \in Task : pc[t] = "delete" =>
       /\ Deletable(hnd[t])
       /\ \A e \in list : handle[e] # hnd[t]
       /\ \A u \in Task \ {t} : pc[u] = "delete" => hnd[u] # hnd[t]
  /\ \A e \in list : exited[e] => Deletable(handle[e])

\* Two threads never wait for each other, however their calls interleave.
NoMutualJoin ==
  \A t, u \in Task :
    ~ (pc[t] = "wait" /\ pc[u] = "wait" /\ hnd[t] = u /\ hnd[u] = t)

\* pthread_join returns the value its thread passed to pthread_exit.
JoinReturnsValue ==
  \A t \in Task : pc[t] = "delete" => got[t] = value[hnd[t]]

(***************************************************************************)
(* Start and join share one notification per task.  A pending one is       *)
(* either the start of a task that has not begun, or tells a joiner that   *)
(* its thread is over; so no join returns early and no thread starts       *)
(* before its entry is in the list.                                        *)
(***************************************************************************)
NotificationIsMeant ==
  \A t \in Task : notified[t] =>
     \/ pc[t] = "born" /\ \E e \in list : handle[e] = t
     \/ pc[t] = "wait" /\ pc[hnd[t]] \in {"park", "suspended"}

ReleasedByExit ==
  \A t \in Task : tls[t] /\ ~ tls'[t] => pc[t] = "run" /\ pc'[t] = "exit"

(***************************************************************************)
(* A task's thread-local storage is only released by its own pthread_exit: *)
(* the cleanup that join and detach make for the dead task never resets    *)
(* the pointer of the task that makes it.                                  *)
(***************************************************************************)
OnlyExitReleasesTls == [][ReleasedByExit]_vars

(***************************************************************************)
(* A joiner whose thread has called pthread_exit, before or after the      *)
(* joiner began to wait, gets its answer: the wake-up is never lost.       *)
(***************************************************************************)
JoinReturns ==
  \A t \in Task :
    (pc[t] = "wait" /\ pc[hnd[t]] \in Over \cup {"exit"}) ~> pc[t] = "run"
=============================================================================
