# A TLA+ model of the Presto `std` port

This directory holds TLA+ specifications of `iroh-pico-examples`: a Rust `std`
environment for the Pimoroni Presto (RP2350) made of FreeRTOS, lwIP, Newlib, a
pthread layer taken from ESP-IDF, a display driven by the second core, and the
two iroh echo applications on top. The specifications are translated from the
source; paths below are relative to the repository.

Contents: [inventory](#1-inventory), [modules](#2-modules),
[runs](#3-runs-and-what-they-show), [proofs](#4-proofs),
[disagreements with the code's own words](#5-disagreements),
[what is not modelled](#6-what-is-not-modelled), [plan](#7-plan).

## 1. Inventory

FreeRTOS schedules preemptively on core 0 alone (`configNUMBER_OF_CORES 1`):
the main task at priority 2, pthreads at 5, lwIP and the driver tasks at their
own. Core 1 runs one bare function, the display scan-out. Three kinds of
concurrency result: tasks against tasks, tasks against interrupts, core 0
against core 1. Everything below `std::thread`, `std::sync` and `std::net` in
Rust rests on the C code of `pico-std/c`.

| Component | State it keeps | Operations | What makes it correct |
|---|---|---|---|
| **Threads** `esp-idf/src/pthread.c` 28-481 | `s_threads_list` of `esp_pthread_t` under `s_threads_mux`; FreeRTOS task states; one notification per task, shared by start and join | create, exit, join, detach, self | a join returns its thread's value, once, and deletes the task when it can no longer run; no entry is used after its free; a wake-up is never lost |
| **Mutexes, once** `pthread.c` 487-811 | `esp_pthread_mutex_t`: a FreeRTOS semaphore and a type, allocated on first use for static ones; `once` flag set by compare-and-set | init, destroy, lock, timed lock, try lock, unlock, attributes; `pthread_once` | mutual exclusion; one semaphore per static mutex; the once routine runs once |
| **Condition variables** `pthread_cond_var.c` | list of waiter records on the waiters' stacks, under `cond->lock` | wait, timed wait, signal, broadcast, init, destroy | every live waiter is on the list exactly while it may be notified; a broadcast misses no one |
| **Reader-writer locks** `pthread_rwlock.c` | three counters under a mutex, one condition variable | read, write, try, unlock, init, destroy | readers and writers exclude each other; whoever must wait is woken |
| **Thread-local storage** `pthread_local_storage.c` | list of keys with destructors; per task a list of values behind a FreeRTOS TLS pointer | key create/delete, get/set, cleanup at exit | each value is destroyed once, by the task that owns it, those included that destructors set |
| **Newlib locks** `locks.c` | lazily created FreeRTOS mutexes | init, acquire, try, release, close | created once although two tasks use them first; no-ops before the scheduler runs |
| **Atomics** `stdatomic.c` | the operands, under a critical section | 64-bit and wide load, store, exchange, compare-exchange, fetch-op | each is one atomic step; results wrap at their width |
| **eventfd, poll, clocks** `c/src/platform.c` | table of eventfd counters; lwIP's sockets behind `poll` | eventfd, read, write, close, poll, clock_gettime | a write wakes a poller; a counter is read and reset at once; no descriptor is used after its close |
| **Shims, fault report** `c/src/shim.c` | fault record in memory that survives a reset; watchdog | report of a saved fault, hard-fault handler, usleep, affinity | a fault before a reset is reported once after it |
| **PSRAM, heap** `c/src/psram.c` | QMI configuration; the break of `_sbrk` | detect, init, sbrk | the heap never leaves the memory that was found |
| **Display start** `c/src/display.c` 439-492, `src/lib.rs` 221-249 | `display_status`, `dma_framebuffer`; ownership of the buffer | start, start with framebuffer | core 1 scans memory that stays allocated |
| **Scan-out** `c/src/display.c` 100-437 | a ring of eight line buffers, three DMA channels, two PIO state machines | line and frame interrupts, prefetch | no line is overwritten while it is shown; line p shows row p |
| **Outputs** `c/src/outputs.c` | the LEDs' state machine | init, set LEDs, buzzer | initialised before use |
| **Secret** `c/src/secret.c` and `load_or_create_secret` | one flash sector: magic and key | load, store (erase, program, verify) | the identity is stable over restarts; a broken write is not taken for a key |
| **Wi-Fi, time** `c/src/wifi.c` | connection and SNTP state | connect (five attempts), time sync | bounded; time is only used once valid |
| **Standard I/O** `c/src/io.c` | USB/UART descriptors | read, write, fstat, isatty | partial writes are reported |
| **Startup** `pico-std/src/startup.rs`, `c/src/empty_main.c` | main task | create the main task, start the scheduler, call Rust's `main` | the main task never returns |
| **Echo application** `iroh-echo-full/src/iroh_echo.rs` | endpoint; UI events over a channel; LED and display state; connection guards | accept, echo, render, select loop | the number of connections shown is that of the established ones, once the events are handled; no address change stays undrawn |
| **Bare application** `iroh-echo-bare/` | endpoint | accept, echo | the same, without a UI |
| **Crypto, DNS, verifier** `quic_crypto_provider.rs`, `std_dns_resolver.rs`, `insecure_verifier.rs` | none | pure adapters | packet protection masks as in RFC 9001 |
| **Build** `build.rs`, CMake, PIO programs, headers | none | | |

How they interact. Rust's `std` calls the pthread layer; a Rust `Mutex` or
`RwLock` is a static pthread object initialised by its first user; `RwLock` is
built from a mutex and a condition variable, `thread::Builder` from create, join
and detach, `thread_local!` from keys and from the cleanup in `pthread_exit`.
Newlib's `malloc` takes `locks.c`'s mutexes, tokio's reactor sleeps in `poll` and
is woken through an eventfd, and the applications' display code draws into the
buffer core 1 scans while the network tasks run.

What is hard here: handles that are addresses of reused memory; a notification
slot shared by two protocols; waiters' records on stacks; lazily created
locks; a counter narrower than what it counts; code that checks a flag and acts
on it without a lock; a buffer shared with a core that has no lock at all; a pipeline
of DMA channels and interrupts that must keep ahead of a panel; a poll that watches two
kinds of descriptors in turns; power that fails between two flash operations. The
list, line by line, is under `hazards` in `PROJECT.json`.

## 2. Modules

| Module | Models | State against the code |
|---|---|---|
| `PthreadThreads` | `pthread.c` threads | `list` is `s_threads_list`; `heap` the allocated entries; `handle`, `joiner` (`join_task`), `exited` (`state`), `detached`, `retval` their fields; `mux` the holder of `s_threads_mux`; `notified` FreeRTOS's notification bit; `tls` whether the TLS pointer is set; `pc` and the locals `cur`, `hnd`, `got`, `value` are the calls in progress |
| `MCPthreadThreads` | instance | two pthreads, main, two entries |
| `PthreadThreads_proofs` | proofs | |
| `CondVar` | `pthread_cond_var.c` and users that wait in a loop | `waiter_list` is the TAILQ, `sem` each waiter's binary semaphore, `alive` between init and destroy, `ready` the users' predicate |
| `MCCondVar` | instance | |
| `CondVar_proofs` | proofs | |
| `RwLockSpec` | what a reader-writer lock promises | `hold`, `writing`: what each task has been granted |
| `RwLock` | `pthread_rwlock.c` | the three counters by name; `resource` is `resource_mutex`; `waiters`, `woken` the condition variable; `hold`, `writing` are history: the code does not store who holds |
| `MCRwLock` | instances | |
| `RwLock_proofs` | proofs | |
| `MutexSpec` | what a mutex promises | `held`: how often each task holds it; `alive` |
| `PthreadMutex` | `pthread.c` mutexes | `mutex` is the `pthread_mutex_t`; `mux` the blocks it may point to, with the semaphore's holder and count; `ptr`, `pc` the calls in progress; `held` is history, what the calls told each task |
| `MCPthreadMutex` | instances | |
| `PthreadMutex_proofs` | proofs | |
| `ThreadLocal` | `pthread_local_storage.c` | `s_keys` by name, newest first; `tls` each thread's list of values; `entry`, `key` the locals of the clean-up; `fate` and the flag `late` are history; `masked` the task that has left interrupts masked |
| `MCThreadLocal` | instance | |
| `ThreadLocal_proofs` | proofs | |
| `EventFd` | `platform.c` eventfd, read, write, close, poll | `active`, `value` the fields of `eventfds`; `fd` the slot a task tries or has; `timeout`, `elapsed` the locals of poll; `socket` whether a socket of the poller is ready; `unread` is history |
| `MCEventFd` | instance | |
| `EventFd_proofs` | proofs | |
| `Scanout` | `display.c` on core 1, PSRAM build | `timing_row`, `timing_phase`, `display_row`, `next_line_addr` by name; `timing_fifo` the queue of the timing state machine; `irq`, `handler`, `copy` what `line_isr` is at; `pixel`, `prefetch` what the DMA channels do; `lines` is `prefetched_lines` |
| `MCScanout` | instances | |
| `Scanout_proofs` | proofs | |
| `FaultRecord` | `shim.c` fault record | `magic`, `fields` are `saved_fault`; `fault` the copy that is printed; `handling`, `handled` the progress of `hardfault_report`; `printed` is history |
| `SecretStore` | `secret.c`, `load_or_create_secret` | `flash` what is behind the magic; `store` the progress of the boot; `used`, `promised` are history |
| `EchoServer` | `iroh_echo.rs` | `lit` is `Outputs::active_connections`, `shown` is `DisplayState::active_connections`; `ui`, `addr_rx` the channels; `conn` the connection tasks; `sending` what the address forwarder holds; `addr_shown`, `led_state` what is drawn |
| `Device` | `startup.rs`, `main`, `wifi.c` over the three modules above | `phase` how far the startup is; `attempt` the loop of `presto_wifi_connect` |
| `MCDevice` | instance | |
| `Device_proofs` | proofs | of `FaultRecord`, `SecretStore` and `EchoServer` under `Device` |
| `DisplayStart` | `display.c`, `lib.rs` start | `display_status`, `dma_framebuffer` by name; `core1` what the second core runs; `allocated` the buffers Rust has not freed |

**How steps are cut.** In `PthreadThreads` and `RwLock` a section under a mutex
is two steps: `Take` gets the mutex, one action named for the path does all that
the section does and gives the mutex back. Others run in between, but nobody else
touches what the mutex protects, which the models check rather than assume (every
section's guard requires the mutex). Steps outside a mutex that touch shared state
are actions of their own: `xTaskNotify` in `pthread_create` comes after the
unlock (`CreateStart`), a joiner goes for the lock a second time (`JoinWake`,
`JoinReap`), the joiner's `vTaskDelete` comes after its last unlock
(`JoinDelete`), and the storage cleanup of `pthread_exit` before the lock
(`Exit`). In `CondVar` the sections under `cond->lock` never block and are one
step each. Priorities of pthreads are configurable (`esp_pthread_set_cfg`), so any
ready task may take the next step.

**Addresses are reused.** `Thread` and `Child` are pools of addresses. A freed entry or
TCB goes back to its pool and may be handed out at once, so a pthread_t a task still
holds may name another thread by the time it is used; `Call` lets every task pass
every pthread_t to join and detach at any time. The behaviours are infinite although
the pools are small.

**What pthread code is abstracted.** Stack sizes, priorities, names and the inherited
configuration appear only as the TLS pointer they set; a failed allocation in
`pthread_create` undoes itself and is a stutter; error codes are one refusal. The
calls `pthread_exit` makes to key destructors are in `ThreadLocal`; what remains
here is that the storage is released.

**ThreadLocal beside PthreadThreads.** `Exit` of `ThreadLocal` begins where `Exit` of
`PthreadThreads` calls the clean-up. Lists of values are the thread's own, so the steps
are the accesses to the key list and the calls of destructors; user code, a destructor's
too, may create and delete keys and set and clear values between them.
`pthread_key_delete` ends with a second `portENTER_CRITICAL` where the exit should be
(line 98). The model does what the code does: interrupts stay masked and no other task
runs again (`masked`, `Runs`).

**EventFd.** Every access to a slot is one of the compiler's atomic operations and one
step. Tasks use a descriptor as mio does: the poller reads it when poll has reported it,
and closes it when no waker is left, so that no write is under way; the code checks
neither, and a write through a stale descriptor would count for the slot's next user.
lwIP's sockets are one flag per poller.

**Scanout.** Hardware and handlers are steps of one machine. Interrupts are taken at once
unless a handler runs (`Served`), `line_isr` in front of `timing_isr` (priorities 0x20 and
0x80), and the frame interrupt first when both are raised. A handler's blocking copies are
steps in which the rest goes on. A line's pixels are the number
of the row whose copy into it was begun last; whether that copy was cut short is left out, as no
property tells. `CopyInTime` is the one assumption on speed: `prefetch_line_blocking` in the line
interrupt takes less than two lines of the panel.

**Device over FaultRecord, SecretStore and EchoServer.** The three modules have the state
and the actions of their part; `Device` says in which order the startup reaches them and
lets a hard fault, the watchdog's reset, any other reset and a loss of power come between
any two steps of any of them. Flash survives all of these, the fault record a reset, the
rest nothing. Power that fails, or flash that errs, while a page is programmed may leave the
magic and a part of the key: `presto_secret_load` tests the magic only and takes it for a
stored secret, and so does the model.

**RwLock over CondVar.** `CondVar` shows what `RwLock` then uses: a waiter is on the
list before it releases the mutex, stays on it until it has been woken, and a
broadcast under the mutex reaches all of them (`ListHoldsLiveWaiters`,
`NoMissedNotify`). `RwLock` has the list and the notified tasks as two sets;
only broadcasts are made, and no wait has a deadline.

**Use assumed of RwLock.** A reader does not ask for the write lock, a writer makes no
further lock call and only a holder unlocks, as Rust's guards ensure
(`MayRead`, `MayWrite`, `MayUnlock`). The code checks none of these. Destroy is
called when no call is in progress, by anyone, and need not succeed.

**Variants.** Definitions whose comment starts with "Variant:" are not part of the
specification. Each is a plausible mistake in the definition that follows it, with
the same parameters; putting it in that definition's place makes one property fail,
which shows that the property depends on that line of the code.

## 3. Runs and what they show

Each run is `tlc -config <cfg> <module>`. Deadlock is checked in every passing run
but where noted.

### `threads` (MCPthreadThreads)

Main and two pthreads, two entry addresses, two TCB addresses, two results: 117,754
distinct states, no symmetry since liveness is checked. Two pthreads and main are
enough for a joiner, a joined thread and an interfering third party; two addresses
with reuse are enough for a stale handle to name a successor; two results tell one
thread's value from another's.

| Property | What could go wrong without it |
|---|---|
| `TypeOK` | an entry freed while linked |
| `HandlesIdentifyThreads` | `pthread_find`'s assertions in exit and self fail, or they find a predecessor's entry with the same TCB address |
| `JoinerOwnsEntry` | detach or a second join frees the entry a sleeping joiner will read |
| `DeleteIsSafe` | a task is deleted twice, while it holds `s_threads_mux`, or before it stops; or its storage leaks |
| `NoMutualJoin` | two threads wait for each other (a cycle of three is not detected and the code does not claim it) |
| `JoinReturnsValue` | a result of another thread or none |
| `NotificationIsMeant` | start and join share a notification bit: a join returns early, or a thread runs before it is in the list |
| `OnlyExitReleasesTls` | join's cleanup for a dead task resets the pointer of the *calling* task, as `pthread_local_storage.c:146-163` would if the dead task still had storage: it never does |
| `JoinReturns` | exit between the joiner's check and its wait loses the wake-up |

*Fairness.* `WF(Continue(t))`: a task that is ready runs in the end. FreeRTOS is
preemptive with time slices among equals, and the tasks above it block. `SF(Take(t))`:
a semaphore that is given again and again is obtained in the end, since FreeRTOS queues
its waiters. No fairness on what user code chooses to do (`Create`, `Call`, `Exit`,
`UseTls`), so `JoinReturns` speaks of threads that have called `pthread_exit`. All
tasks may wait for each other in a cycle of three or more joins only with three
pthreads; with two the run has no deadlock, since main can always go on.

### `condvar` (MCCondVar)

Waiters that loop on a predicate, setters that broadcast, and notifications at will,
signals included; time-outs at any moment; destroy and init in between.
`ListHoldsLiveWaiters`: no notification gives a semaphore on a stack frame that is gone.
`NoMissedNotify`: once the predicate holds and its setter has broadcast, nobody sleeps
without a wake-up of its own; it depends on the waiter queueing before it unlocks.
`NotifiedReturns` (liveness): a notified waiter gets the mutex back. Fairness is strong on
each task's own steps, because the mutex is taken in the same step as what follows.

What the model shows the code does *not* promise, and no property claims:
`pthread_cond_signal` gives the *first* waiter's semaphore and leaves it on the list, so a
second signal before that waiter has run is absorbed by the full semaphore
(`pthread_cond_var.c:61-64`), and a signal to a waiter that has timed out and not yet left
is lost (160-167). Users who broadcast, as the rwlock does, are unaffected; users who
signal once per item can leave a second waiter asleep.

### `rwlock` (MCRwLock) and `rwlock_overflow`

Three tasks with two lock calls each, up to two read locks per task: 38,087 states. Three
are needed for a writer that waits behind a reader while a third enters, leaves or queues
too. `CountersMatchHolders` is what every later decision of the code rests on and makes
the assertion in `pthread_rwlock_unlock` hold; `NoLostWakeup` relates the sleepers to
somebody who will still broadcast, which is delicate because a reader lets waiting writers
go first only *after* it has slept; `DestroyedIsUnused` is the check of destroy;
`ImplementsRwLock` is the refinement of `RwLockSpec`; `CallsReturn` is liveness under
fair scheduling, fair mutexes and holders that unlock, with finitely many calls. Without
that bound a writer starves: new readers enter in front of it (`pthread_rwlock.c:168-169`
tests only for active writers). Destroy is not protected from readers that have been woken
and have not run: no counter has them, and the refusal of `pthread_cond_destroy` is ignored
(115-125); the users modelled do not destroy a lock with calls in progress.

`rwlock_overflow` takes 128 read locks with one task: `active_readers` is an `int8_t`.
See section 5.

### `mutex` and `mutex_destroy` (MCPthreadMutex)

Three tasks lock one mutex, at first static, later destroyed and created again with any of
the three types, up to two deep: about 28,000 states. Three tasks race for the first lock; two
blocks are enough to see a second one created or an address reused. `OneBlock` is the race of
`pthread_mutex_init_if_static`: it fails if the test inside the critical section goes.
`SemaphoreMatchesHolds` relates the semaphore to what the tasks were told; `ImplementsMutex`
is mutual exclusion, nesting and destruction as `MutexSpec` states them; `LockReturns` says
that a waiting lock call returns. *Fairness*: strong for a task's own steps, because FreeRTOS
queues the waiters of a semaphore; weak for unlocking and strong for the last unlock of a
holder, that is, users do not keep a mutex for ever. In this run nobody destroys what it
holds itself, and destroying starts when no other call is in progress; it may be held, and a
holder may unlock it meanwhile. `mutex_destroy` lets tasks destroy what they hold: section 5.

### `locals` (MCThreadLocal)

Two threads, three keys, three values: a list has a first, a middle and a last entry, and a
value that a destructor sets finds others still waiting; about 927,000 states.
`ValuesMeetTheirEnd` relates a history of each value to where it is: it is destroyed at most
once and no thread leaves one behind. `LateValuesComeLast` is the comment at 231-233 of the
file. `KeyInUseIsLive` is about the pointer `find_key` returns and the clean-up dereferences
after the critical section: it never dangles, *because* a delete stops every other task;
its mutant, which leaves the critical section as it was meant, makes it fail, so mending line
98 alone would uncover a use after free. `ExitCompletes` is liveness under `WF(Cleanup(t))`:
ready tasks run and destructors return; destructors that set values for ever are excluded by
the number of values, and a task that never runs again because another has masked the
interrupts is excepted. Deadlock is not checked: threads end, and a delete stops the system.

### `poll` (MCEventFd)

One poller and two tasks that only open and close, two slots, so that one of three finds none;
time-outs none, zero, shorter than a quantum and longer but no multiple of it; at most two
writes between two reads (mio writes 1, and 2^64 of them do not happen); about 164,000 states.
`CountsOwnWrites` fails if close gives the slot back before it clears it. `TypeOK` includes that
poll waits no longer than it was told. `WriteEndsPoll` is the claim of the comment at 201-203.
`SocketIsReported` says that wake-ups do not hide the sockets for ever, for a poll that finds a
descriptor ready returns without a look at them (line 266).
*Fairness*: weak for poll's steps and for the read after it, and the poller polls again. Strong
where the code needs the others' help, and false without it: wakers pause at times
(`PollWhenIdle` with nothing unread, `LookNotReady`), mio does not only pass a time-out of zero
(such a poll never looks at a socket), and `lwip_poll` reports a socket that is ready.

### `scanout` and `scanout_rows` (MCScanout)

Nine lines through a ring of four, so that the ring is used twice over, with a queue of two
rows of timing words as on the board; the real numbers are 480 and 8, and no definition depends
on them otherwise; 2,162 states. The prefetch channel may take any time, the handlers' copies too.
`PrefetchKeepsOffScan`: neither the channel nor a blocking copy writes the line the panel is
showing. The first line is left out, since the interrupt before it prefetches row
`PREFETCH_LINES` into its slot (its last pixels may be that row's), and the property needs
`CopyInTime`. `FrameHandledInBlanking` holds because `timing_isr` waits behind the frame
handler and the panel with it; with the priorities exchanged it fails. `RowsFollowEachOther`: however
late the line interrupt is counted, no row is left out or shown again. A line counts as the row whose
copy into it began last, so one whose prefetch was aborted may still show an older row in part. The
property does not say which row a line shows: `scanout_rows`, section 5.

The sizes are constrained by two assumptions, which those of the code satisfy. The ring has at least
three places (`PanelAssumption`; the code has eight): with two, the row that is prefetched goes
where the panel reads. The queue holds at most eight words (`QueueAssumption`: that is what a PIO
queue joined by `PIO_FIFO_JOIN_TX` holds), two rows, so that the panel gets no further than to the
end of the next one while a line interrupt copies; in a ring of three, `PrefetchKeepsOffScan` fails
with thirteen. And it holds no more words than there are without an interrupt between two pictures,
68 in the code; with one row on either side and five words, the panel gets to the next picture while
the frame handler still copies.

### `device` (MCDevice)

Two faults, two secrets, two connections, two addresses, one place in the address channel, two
attempts to connect: 3.5 million states. Two faults are needed for one that comes while the other
is recorded or reported; two secrets for an identity that changes; two connections for one that
ends early beside one that is established. `ReportsAreReal`: a record is reported whole, once,
whatever comes in between. `IdentityIsKept` is the comment at `iroh_echo.rs:39`: the first
secret that was found or stored without a warning is that of every later boot; it depends on the
verification, because a page that was cut short keeps a *different* key. `DisplayFollowsEvents`
ties the number on the display, the LEDs and the drawn address to what happened, with events
still in the channels. No liveness is claimed: faults may come for ever.

### `display_start` (DisplayStart)

Two tasks call `Display::start`. See section 5.

## 4. Proofs

`tlapm` checks the proof modules from nothing in a few minutes each, with Z3, Zenon and LS4.

**`PthreadThreads_proofs`**: every safety property of the run `threads`, for any sets of
tasks, addresses and results; the only assumption is `NullsAreNotAddresses`. The
properties are not inductive: that a woken joiner finds its entry, for instance, follows
from what `pc` of the joiner, the entry's `joiner` field, the exiting thread's `pc` and the
notification say of each other. `IInv` adds those facts:

- `Lock`: who holds `s_threads_mux` is inside a section; main never exits.
- `Locals`, `Creating`: locals point to something; a thread under construction is known to
  its creator only, has not started and has not been notified.
- `Joining`: an entry with a joiner has not exited and the joiner is in the wait for it.
- `Ended`: a stopped thread left its result, and either its entry says so or its joiner has
  been told.
- `TlsGone`, `Deleting`: what is true of a task that has stopped and of one about to be deleted.

There is one lemma per action and in it one step per part. `NoMutualJoin` is proved on top
(only `JoinRunning` enters the wait), and so is the action property `OnlyExitReleasesTls`.
`WakeUpIsNotLost` is what safety can say of `JoinReturns`: once its thread is past
`pthread_exit`, a waiting joiner has its notification.

**`RwLock_proofs`**: types, `CountersMatchHolders`, `NoLostWakeup`, `DestroyedIsUnused` and the
refinement `ImplementsRwLock`, for any finite set of tasks, under `ReadersFit`: all the read locks
that tasks may hold at once number at most 127. The assumption is needed, as `rwlock_overflow`
shows; under it `ReadersAreCounted` proves the property that run refutes. The counters are numbers
and what they count are sets; the lemmas `TokenAdded`, `TokenDropped`, `NoTokens` and `Zeros` turn
one into the other, and the remaining parts (`Mutex`, `Listed`, `Callers`, `Exclusive`, `Destroyed`)
are argued with sets alone. `MutualExclusion` is `Exclusive` as a theorem.

**`PthreadMutex_proofs`**: types, `OneBlock`, `SemaphoreMatchesHolds` and the refinement
`ImplementsMutex`, for any tasks and blocks, under `NotOwn`: nobody destroys a mutex it holds
itself. Under the same assumption `DestroyIsSafe` proves the property that `mutex_destroy`
refutes without it. `Holds` is `SemaphoreMatchesHolds` at every moment, the steps of a destroy
included; `Calls` says what a call in progress relies on (nobody frees the mutex under it);
`Destroying` that a destroyer is alone and has taken the semaphore exactly once between its
take and its give. The lemmas `TakeChanges` and `GiveChanges` say what a take and a give do to
the one block they are about, so that the steps are argued without updates of records.
`MutualExclusion` follows from `Holds`. `LockWaitsForHolder` is the safety half of `LockReturns`: a
call that sleeps has another task to wait for that holds the mutex. It needs `LocksOthers`, that a normal
mutex does not become the caller's own while it is in the call.

**`CondVar_proofs`**: types, `ListHoldsLiveWaiters` and `NoMissedNotify`, for any waiters and
setters, under `TasksAreDistinct`. `WaitsWithMutex` is what makes `NoMissedNotify` inductive: from
its test of the predicate until it is on the list a waiter holds the mutex, so no setter can make
the predicate true unseen, and `Listed` (each waiter in the wait is on the list, once) makes the
broadcast reach every sleeper. `DeadIsUnused` carries this over a destroy and a new init.
`RemoveAtLeavesRest` says what `TAILQ_REMOVE` leaves; `RemoveAtShifts` is the
same for sequences in general, and is needed for the lists of `ThreadLocal` too.

**`ThreadLocal_proofs`**: types, `KeyInUseIsLive`, `LateValuesComeLast` and `ValuesMeetTheirEnd`,
for any threads, values and number of keys, under `LocalAssumption`. `KeyInUseIsLive` is inductive
as it stands: whoever deletes a key is in its own code, not between a look-up and a call, and
nobody else runs afterwards. `KeyNumbers` bounds the numbers given out, `LateIsLate` says that late
values exist in cleanups only. `OnePlace` is `ValuesMeetTheirEnd` without cardinalities: all
places of a value are one, and it has one while it is held. `PlacesChange` reduces a step to which
values gain and which lose their place. That a search finds what is there (`IndexOfFinds`) needs
the smallest element of a set of numbers, hence `WellFoundedInduction`.

**`EventFd_proofs`**: types and `CountsOwnWrites`, for any tasks, slots and time-outs, under
`PollAssumption`. `SlotsAreOwned` is the strengthening: from the compare-and-exchange that claims a
slot to the store that frees it the slot is taken and has one user. The task that is about to
set the initial value and the one about to free count as users too, so nobody's counter is
overwritten by another's open or close.

**`Device_proofs`**: `ReportsAreReal`, `IdentityIsKept` and `DisplayFollowsEvents`, for any faults
and secrets, any finite set of connections and any capacities, under `FaultAssumption`,
`SecretAssumption` and `EchoAssumption`. Each part has an invariant of its own, and the steps of the
others leave it alone or restart it. `FaultInv`: a record whose magic is set, the copy being printed
and the fault being recorded have all not been printed, and the first two differ (`RecordIsNew`,
`CopyIsNew`, `HandlingIsNew`). `SecretInv`: a promise made is in flash, and the boot that stores is
the first (`PromiseIsStored`, `StoresTheFirst`). `ConnInv` with `EventsInOrder`: every prefix of the
channel has no more endings than openings and shown connections; the counts of a queue's tail
(`CountTail`) then keep the number on the display from going below zero. `AddrInv`: once the address
stream has nothing to yield, what is in flight, or else drawn, is the current address.

**`Scanout_proofs`**: types, `PrefetchKeepsOffScan`, `FrameHandledInBlanking`, `RowsFollowEachOther`
and `EachLineShowsNextRow` (what is true of the rows where the run `scanout_rows` refutes the
comment: one number too high in every line between the first and the last), for any panel, ring and
queue, under `PanelAssumption` and `QueueAssumption`. The timing words of a picture are numbered,
and `Queued` says that the queue holds those from `BeamWord` on: so the panel's place determines
which interrupt comes next and how far away it is. While `line_isr` runs or an interrupt waits
nothing is queued, so what can happen until it is served is bounded by what the queue holds.
`FrameWaits`, `LineWaits` and `CopyWaits` state that bound as a sum of words executed and words
left, which a step of the state machine does not change. From it `WordWhileServed` concludes that no
interrupt is raised while one of its kind waits, and `LinesCounted`, that `display_row` is the
number of line interrupts of the picture, less the one that waits. The rest is arithmetic in the
ring: `Prefetching` and `CopyWaits` say which row is fetched, `PixelFollows` which the pixel channel
is at, `RowsHeld` which the ring holds, and `SlotsDiffer` that rows less than a ring apart have
different places. `AtEndOfLine` is where `CopyInTime` is used. Each part of `IInv` held in TLC for
ten combinations of sizes before it was proved.

**Model-checked only**: liveness (`JoinReturns`, `NotifiedReturns`, `CallsReturn`, `LockReturns`,
`ExitCompletes`, `WriteEndsPoll`, `SocketIsReported`), which needs fairness and ENABLED, out of the
prover's reach, and that nothing deadlocks. Every safety and action property and every refinement that
a passing run checks is also proved.

## 5. Disagreements

- `pthread_rwlock.c:28` calls `active_readers` "Number of current readers holding this lock,
  negative number means waiting readers". It is an `int8_t` that the 128th read lock takes to
  -128 (169, 174, 202); from then on `active_readers > 0` is false, a writer passes the test for
  free locks, and an unlocking reader takes the writer's branch. Nothing in the code
  bounds readers, and no path stores a negative number for waiting readers.
- `pthread.c:574` introduces a trial lock with "check if mux is busy", and only `EBUSY` counts as
  busy. When the caller of `pthread_mutex_destroy` holds the mutex itself, a recursive mutex is
  simply taken once more and an ERRORCHECK one answers `EDEADLK`: the held mutex is freed and 0
  returned.
- `pico-std/src/lib.rs:234` frees the buffer after a failed start because "The display never
  started, so reclaiming the allocation is safe." `presto_display_start_framebuffer` stores
  the pointer for core 1 before it looks at the status (`display.c:488`), so a second caller
  whose start is refused while the first is waiting for core 1 replaces the buffer and then
  frees it; core 1 scans freed memory.
- `display.c:6` says the PSRAM build "scans a full 480x480 framebuffer". The interrupt before the
  first line steps `display_row` to 1, and `next_line_addr` is the slot of `display_row + 1`
  (226): the pixel channel takes it when line 0 is over. Row 1 is never shown, line p shows row
  p + 1, and the last line what the ring holds in the place of a row that does not exist.

Observations that no sentence of the repository denies, and the models contain: a key's number
is given out again after the newest key was deleted, and values under it go to the new key's
destructor (`pthread_local_storage.c:59`); `pthread_key_delete` leaves interrupts masked (98);
a key of which only a part was programmed is accepted (`secret.c:26`); a reset in the two
seconds before a fault report is printed loses it (`shim.c:137`); a poll with a time-out of zero
never looks at a socket (`platform.c:266`); "CONNECTION FROM" may name a connection that has
ended while another goes on (`iroh_echo.rs:217`).

## 6. What is not modelled

Build files, board headers, licences and the examples carry no state that outlives a call.
`stdatomic.c` is a critical section around one operation: each call is one atomic step by
construction. `locks.c` creates its locks inside one critical section, as static mutexes are
created (`PthreadMutex`), and does nothing before the scheduler runs. `s_check_and_init_if_static`
and `pthread_rwlock_init_if_static` too test again inside a critical section: `CondVar` and `RwLock`
begin a static object with its init, and the race of two first users is modelled for mutexes only
(`OneBlock`). `pthread_once` is one
compare-and-set; its second caller returns early, by intent. `_sbrk` is a range check and an
addition under the malloc lock. The arithmetic of time-outs is a choice of outcomes. Drawing,
LEDs, buzzer and standard I/O change nothing another component reads.
`quic_crypto_provider.rs`, `std_dns_resolver.rs` and `insecure_verifier.rs` are pure adapters to
other libraries, and the bare application repeats parts of the full one. FreeRTOS, lwIP, CYW43,
the Pico SDK and iroh are outside the repository and enter through what the code calls: a binary
semaphore caps at one, a notification is a bit, `vTaskDelete` of another task takes effect at once.

## 7. Plan

All modules above are done, checked, and proved as far as the prover reaches. What is left:
a proof for `DisplayStart` that a single starter is safe; `pthread_once` beside `PthreadMutex`; the
arithmetic of deadlines, and the atomic operations at their widths, as functions checked against a
reference over bounded inputs.
