# A TLA+ verification of psync

psync is a header-only C++17 library of synchronisation primitives for
multi-threaded programs (`src/include/psync/*.h`).  Everything in it is built on
atomic words, on the futex of the platform and, for two of its locks, on a
global parking lot.  The library has no I/O and persists nothing: what is hard
about it is interleaving.  This project models its primitives step by step, one
atomic access or one kernel call per action, model-checks them on small
instances with TLC, and proves the main invariants for any number of threads
with TLAPS.

The models are of the Linux build (`PSYNC_LINUX`): real futex calls, x86-style
atomics with the orders the code asks for.  One run (`futex_fallback`) looks at
the condition-variable fallback of the Windows build.  Unless a section says otherwise the
memory is sequentially consistent.  For the locks that is little to assume: what
decides in each of them is one word, all accesses to one word are ordered by
coherence whatever their memory order, and the data a lock protects is not part
of the model.  Contended words are updated by read-modify-write operations; the
plain stores there are (the `unlock()` of `SpinLock`, `TicketLock` and
`MicroLock`, the publications of the rings, `SeqLock` and the once-flag) are
release stores by the only thread that may then write the word, and the model
makes them visible at once.  Where a second word is read after such a store the
order does matter: the run `epoch_store_buffer` is about the one such place
where nothing in the code provides it.

## 1. Inventory

| Component | Source | State | Operations | Correct when |
|---|---|---|---|---|
| futex | `psync_platform.h` | the kernel's set of sleepers per address | `wait`, `wait_for`, `wake`, `wake_all`, `requeue` | compare-and-sleep is atomic; a wait may end spuriously |
| atomics, CPU helpers, test helpers | `psync_platform.h` | none | `atomic_*`, `pause`, `yield`, `thread_id` | not modelled: single machine operations |
| `Mutex` | `psync_mutex.h` | one word: LOCKED flag and waiter count | `lock`, `try_lock`, `unlock` | exclusion; the count is exact; no lost wake-up; contended `lock()` returns |
| `ConditionVariable` | `psync_condvar.h` | a sequence counter | `wait`, `wait_for`, `wait_until`, with and without predicate, `signal`, `broadcast`, `broadcast(mutex)` | a notification between unlock and sleep is not lost; `wait` returns owning the mutex |
| `SharedMutex` | `psync_shared.h` | one word: writer flag, waiting writers, readers | `lock`, `try_lock`, `unlock`, `lock_shared`, `try_lock_shared`, `unlock_shared` | reader-writer exclusion; writer preference; nobody sleeps on a lock it could take |
| `ParkingLot` | `psync_microlock.h` | 64 buckets: a spinlock and a list of stack-allocated nodes | `park`, `unpark_one`, `unpark_all` | a node is queued at most once and off the list before its frame returns; every node taken off is woken |
| `MicroLock` | `psync_microlock.h` | one byte | `lock`, `try_lock`, `unlock` | exclusion; parked threads are found by `unlock()` |
| `TaggedLockPtr` | `psync_tagged_ptr.h` | a pointer with LOCKED and WAITERS bits | `lock`, `try_lock`, `unlock`, `exchange`, `compare_exchange`, `get` | exclusion; the pointer is stable under the lock; WAITERS covers the queue |
| `EpochManager` | `psync_epoch.h` | global epoch, a slot per thread, the retired list | `register_thread`, `enter`, `exit`, `retire`, `try_reclaim` | nothing is freed while a reader that could have seen it is inside |
| `MPSCQueue` | `psync_mpsc_queue.h` | bounded ring of slots with sequence numbers, closed flag | `try_push`, `push_blocking`, `try_pop`, `pop_blocking`, `close` | FIFO per producer; a successful push is popped; close wakes everyone |
| `MPSCIntrusiveQueue` | `psync_mpsc_intrusive.h` | linked list with stub node | `push`, `pop` | FIFO; no node lost, returned twice or touched after it is returned |
| `SPSCQueue` | `psync_spsc_queue.h` | ring, two indices, two cached indices | `try_push`, `try_pop` | FIFO; a cached index never lets a slot be overwritten |
| `Barrier` | `psync_barrier.h` | count and phase | `arrive_and_wait`, `arrive`, `wait` | nobody leaves a phase before all arrived |
| `Latch` | `psync_latch.h` | counter | `count_down`, `wait`, `wait_for`, `arrive_and_wait` | waiters return once the count is zero |
| `Semaphore` | `psync_semaphore.h` | token counter | `release`, `acquire`, `try_acquire`, `try_acquire_for` | no token is left beside a sleeper that nobody wakes |
| `Baton` | `psync_baton.h` | three-valued word | `post`, `wait`, `wait_for`, `reset` | a posted baton releases its waiter |
| `call_once` | `psync_once.h` | three-valued word | `call_once` | exactly one completed call; a throwing call is retried |
| `SpinLock`, `TicketLock` | `psync_spinlock.h` | a flag; two counters | `lock`, `try_lock`, `unlock` | exclusion; FIFO for tickets |
| `SeqLock` | `psync_seqlock.h` | sequence counter | `write_begin/end`, `read_begin/retry`, `read_transaction` | a reader that does not retry saw one version |
| RAII locks | `psync_locks.h` | `mutex_` and `owns_` of each object | construction in five forms, move, swap, `lock`, `unlock`, `release`, destruction | every mutex is unlocked exactly once |
| Batch guards | `psync_batch.h` | a reference to a lock; statistics counters | scoped lock and unlock | as above; the counters decide nothing |
| `CachePadded` | `psync_cache_padded.h` | a padded value | accessors | layout only |
| Telemetry | `psync_telemetry.h` | statistics counters | record, snapshot | no effect on the locks |

**How they interact.**  `Mutex`, `SharedMutex`, `ConditionVariable`, `Latch`,
`Barrier`, `Semaphore`, `Baton` and `call_once` call the futex on a word of
their own.  `ConditionVariable` releases and re-acquires a `Mutex` that its
caller holds; `broadcast(mutex)` hands the address of the mutex word to the
kernel.  `MicroLock` and `TaggedLockPtr` call the global `ParkingLot`, and the
lot calls back into them under a bucket's spinlock to validate a park and to
update the WAITERS bit; locks that have nothing to do with one another meet in
a bucket when their addresses collide.  `EpochManager` guards its
retired list with a `std::mutex`.  The guards, the batch guards and the telemetry wrap the locks.

**What is hard.**  A word loaded before a futex call and compared by the kernel
afterwards; an `unlock()` between a contender's last look and its sleep; counts
that decide whether a wake is sent; a wake sent to a stack node after the node
may be gone; one wake serving many sleepers; interrupted waits; deadlines that
race with notifications; callbacks that touch a word which their lock does not
protect.  The `hazards` of `PROJECT.json` list each of these at its line, with
the properties that would catch it.

## 2. Modules

| Module | Models | EXTENDS / INSTANCE |
|---|---|---|
| `Futex` | which sleepers `FUTEX_WAKE` releases (external: the kernel) | |
| `AbstractLock`, `AbstractLocks` | what a lock, and a family of locks, promise | |
| `AbstractSharedLock` | what a reader-writer lock promises | |
| `Mutex` | `psync::Mutex` | `Futex`; refines `AbstractLock` |
| `MutexProofs` | theorems about `Mutex` | `Mutex`, TLAPS |
| `SharedMutex` | `psync::SharedMutex` | `Futex`; refines `AbstractSharedLock` |
| `SharedMutexProofs` | theorems about `SharedMutex` | `SharedMutex`, TLAPS |
| `CondVar` | `psync::ConditionVariable` and a producer/consumer client | INSTANCE `Mutex` with all its steps |
| `CondVarProofs` | theorems about `CondVar` | `CondVar`, TLAPS |
| `ParkingLot` | buckets, nodes, `park`, `unpark_one`, `unpark_all` | |
| `MicroLock`, `TaggedLockPtr` | the two locks over the lot | `ParkingLot` |
| `ParkingLocks` | both kinds of lock over one lot | both; refines `AbstractLocks` |
| `MCParkingLocks` | the instance TLC checks | `ParkingLocks` |
| `ParkingProofs` | theorems about the lot and its two locks | `ParkingLocks`, TLAPS |
| `EpochManager` | `psync::EpochManager` and a client with one shared pointer | |
| `MCEpochManager` | the instance TLC checks, with its symmetry | `EpochManager` |
| `EpochProofs` | theorems about `EpochManager` | `EpochManager`, TLAPS |
| `AbstractQueue` | what a queue promises | |
| `MPSCQueue` | `psync::MPSCQueue` | refines `AbstractQueue` |
| `SPSCQueue` | `psync::SPSCQueue` | refines `AbstractQueue` |
| `MPSCIntrusiveQueue` | `psync::MPSCIntrusiveQueue` | refines `AbstractQueue` |
| `PushCalls` | the producers of the two multi-producer queues | |
| `Queues` | a program with one of the three queues | all three |
| `QueueProofs` | theorems about the three queues | `Queues`, TLAPS |
| `FutexWord` | what the small primitives share: one word, calls, sleeping on it, both futex back ends | `Futex` |
| `Latch`, `Barrier`, `Semaphore`, `Baton`, `CallOnce` | the primitives that sleep on their word | `FutexWord` |
| `SpinLocks`, `SeqLock` | `SpinLock`, `TicketLock`, `SeqLock` | `FutexWord` |
| `Guards` | `UniqueLock`, `SharedLock`, `LockGuard` and the batch guards | |
| `Primitives` | a program with one object of one of these kinds | the eight above; refines `AbstractLock` |
| `MCPrimitives` | the instance TLC checks | `Primitives` |
| `SleepingProofs` | theorems about the five primitives that sleep | `Primitives`, TLAPS |
| `SpinningProofs` | theorems about the spin locks, `SeqLock` and the guards | `SleepingProofs` |

Conventions.  `pc[t]` is the point a thread has reached; the labels are named
for the code that comes next (`"cas"`, `"wait"`), `"out"` is outside the lock,
`"in"` (`"w_in"`, `"r_in"`) is owning it, `"asleep"` is inside `FUTEX_WAIT`.  A
word with bit fields is a record of its fields.  Locals live in a function of
the thread (`current`, `seen`, `my_seq`) and are reset when they go out of
scope.  Spinning that changes nothing is a stuttering step, and spin limits are
nondeterministic: every iteration may be the last one before the slow path.
Operators whose comment begins with "Mutant" are deliberately wrong variants of
the definition that follows them; they take no part in any specification and
serve to show that the properties notice such a change.

* `Mutex`: `state_` is `[locked, waiters]`.  `Lock`/`TryLock` are the first
  compare-exchange, `Spin` the adaptive phase, `Register` the `fetch_add` of the
  waiter count, `Load`/`AcquireRegistered`/`FutexWait` the loop of
  `lock_contended()`, `Unlock`/`UnlockFast` the load and compare-exchange of
  `unlock()`, `UnlockContended`/`Wake` the slow path.  `SpuriousWake` is EINTR.
* `SharedMutex`: `state_` is `[writer, waiting, readers]`.  The same steps for
  writers; readers have the retry loops of `lock_shared()` and
  `try_lock_shared()` (`FastShared`, `TryShared`, where a failed
  compare-exchange supplies the next word) and the contended loop.
* `CondVar`: `Bump` is the `fetch_add` common to `signal` and `broadcast`,
  `Signal`/`Broadcast`/`BroadcastRequeue` the kernel call after it.
  `BeginWait`, the unlock of the mutex, `SleepOnSeq`, `Relock` are the steps of
  `wait()`; `TimeOut`, `Expire`, `GiveUp` those of the timed forms.
* `ParkingLot`: a waiter node is named by its thread, because it lives in the
  frame of that thread's `lock_contended()`.  `queue[b]` is the list.  `Unlink`
  takes the first node of a key off it; `unpark_one()` does so once (`Dequeue`),
  `unpark_all()` node by node under the bucket's lock (`CollectAll`).  A late
  `futex::wake` on a node whose thread has gone on is kept: it can end a later
  park of the same thread early.
* `MicroLock`, `TaggedLockPtr`: validation callbacks run while the bucket is
  held.  The callback of `TaggedLockPtr` is two actions, since its load and its
  `fetch_or` are two accesses to a word the bucket does not protect.
* `EpochManager`: one action per access to a shared variable of
  `register_thread`, `unregister_thread`, `enter`, `exit`, `retire` and
  `try_reclaim`; the scan of `try_reclaim` takes the slots one by one.  Pushing
  on the retired list, and the pass over it, run under `reclaim_mu_` and are one
  step each.  `Follow` and `Unlink` are the client: they read and replace the
  pointer the manager protects.  `FollowEarly` is the reader's load on a machine
  with a store buffer, and belongs to `BufferedSpec` only.
* `MPSCQueue`: one action per access of `try_push()` and `try_pop()`, with the
  failed compare-exchange supplying the next `head`.  `Push(p, TRUE)` is
  `push_blocking()`, which is `try_push()` in a loop that looks at `closed_`.
* `SPSCQueue`: `TryPush`/`TryPop` are the looks at the cached index,
  `ReloadTail`/`ReloadHead` the refresh, `Construct`/`MoveOut` the work on the
  slot, `PublishHead`/`ReleaseTail` the store of the index.  `buffer[s] = Raw`
  means that no object lives in slot s.  Indices wrap at `IndexModulus`.
* `MPSCIntrusiveQueue`: `Clear`, `Exchange`, `Link` are the three accesses of
  `push()`, which the consumer also runs for the stub; `Pop`, `PopAfterStub`,
  `PopLoadHead`, `PopPushStub`, `PopLast` are the loads of `pop()`.  A popped
  entry goes back to the client's `pool` at once.

* `FutexWord`: `word` is the object's 32-bit word, `op[t]` the operation a thread
  is in, `local[t]` its one local variable.  Every sleeping primitive has one
  loop with the labels `"loop"` (load and test), `"wait"` (about to call
  `futex::wait`), `"asleep"`, `"woken"` (not yet back in the loop); `"wake"` is
  before `futex::wake`.  `Backend` chooses between Linux's futex and the Windows
  fallback, whose flag is `waiting`: `FutexWait`, `Woken` and `FutexReturn` are
  the three sections it runs under the lock of the slot.
* `Primitives`: `kind` is chosen in `Init` and never changes: objects have no
  state in common, so a program with several is a product of these.  `Start` are
  the client's calls, `Run` a thread's own steps, `Disturb` deadlines and signals.
  Clients keep the rules of the classes: a latch is not counted past zero, a
  semaphore is not released past its maximum, every thread arrives once in a
  phase of the barrier, the writers of a `SeqLock` are serialised
  ("external serialization", `psync_seqlock.h:32`), and one thread resets the
  baton, after a wait of its own returned true and while the others may be
  anywhere in theirs.
* `SeqLock`: the data are two cells, and a write stores its own sequence number
  in both, so that a torn copy is recognised.
* `Guards`: one thread with three lock objects over two mutexes, all of class
  `UniqueLock` or all of class `SharedLock`, and other threads that come and go
  with the batch guards, which lock and unlock in their scope.  With `UniqueLock`
  the thread also has `LockGuard`s (`guarded`), locked by their constructor or
  adopted.  `held[m]` counts the thread's locks: at most one if exclusive, up to
  `MaxHeld` if shared.  `byHand[m]` counts those the client has taken itself or
  got back from `release()`; only those are adopted or unlocked by hand.

## 3. Runs

| Run | Instance | Distinct states | Checks |
|---|---|---|---|
| `mutex` | 3 threads, 3 calls each | 45,737 | `WaitersCounted`, `NoLostWakeup`, `ImplementsLock`, `LockReturns` |
| `shared_mutex` | 2 writers, 3 readers, one thread both | 65,485 | `CountsExact`, `NoLostWakeup`, `ImplementsSharedLock`, `WriterPreference`, `WriterReturns`, `ReaderWakes` |
| `condvar` | 1 producer with 2 items, 2 consumers, one timed | 84,734 | `SignalsSuffice`, `ActsAsOwner`, `WaitReturns` |
| `condvar_requeue` | 1 producer, 1 consumer | - | `WaitReturns` is violated |
| `parking_locks` | 1 MicroLock and 1 TaggedLockPtr in one bucket, 3 threads | 93,538 | `NodesAccounted`, `FlaggedIsWoken`, `MicroNoLostWakeup`, `WaitersBitSet`, `ImplementsLocks`, `PointerStable`, `MicroLockReturns` |
| `tagged_lost_wakeup` | 1 TaggedLockPtr, 2 threads | - | `TaggedNoLostWakeup` is violated |
| `epoch` | 2 readers, 2 slots, 3 nodes, 1 updater, 2 reclaimers with 2 calls each | 2,848,240 | `NoUseAfterFree`, `SlotsOwned`, `RetiredAccounted` |
| `epoch_store_buffer` | 1 reader, 1 updater that also reclaims | - | `NoUseAfterFree` is violated |
| `queues` | ring of 2 slots, 6 values, indices modulo 4; list with 2 producers, 2 pushes each, 3 entries; multi-producer ring with 2 slots, 2 pushes of each producer, close at any moment | 61,328 | `LiveSlots`, `EntriesOwned`, `SizeSettles`, `RingImplementsQueue`, `ListImplementsQueue`, `ImplementsQueue`, `Delivered`, `DeliveredWhileOpen` |
| `mpsc_close` | 2 producers with 1 push each | - | `AcceptedIsDelivered` is violated |
| `primitives` | each of the nine kinds with 3 threads (2, 2 and 1 calls; 3 phases of the barrier), 3 lock objects and 2 LockGuards over 2 mutexes, each held shared up to 3 times | 182,601 | `SleepersCovered`, `BarrierInPhase`, `RunsOnce`, `SnapshotConsistent`, `GuardsBalanced`, `LocksImplement`, `TicketFifo`, `EveryoneReturns` |
| `futex_fallback` | the semaphore over the Windows fallback, 3 threads | - | `EveryoneReturns` is violated |

**Mutex.**  The refinement `ImplementsLock` is mutual exclusion.
`WaitersCounted` is what `unlock()` relies on when it skips the wake.
`LockReturns` is the consequence of `NoLostWakeup` under fairness, for callers
that stop calling: among the threads that are registered the mutex has no order,
and a thread that comes late may be served first again and again.  The reports
say the same ("No explicit fairness mechanism", `ADVERSARIAL_REVIEW.md:78`,
`FINAL_REPORT.md:270`, `:323`).  Three
threads give an owner, a sleeper and a third that registers, spins or wakes in
between; three calls let the owner come back while others wait.

**SharedMutex.**  Readers call without bound, which is what makes
`WriterReturns` ("prevent writer starvation") a claim; writers are bounded by
`MaxWrites`, because nothing orders writers among themselves.  Two concurrent
readers and a thread that reads and writes make the last-reader decision of
`unlock_shared()` race with a registering writer.

**Finding: what the reports say of writer preference.**  The comment at
`psync_shared.h:92` and the library's README (line 134, "Writer-preference with
starvation resistance") promise it; `FINAL_REPORT.md:287` and `:324` ("No writer
preference") and `ADVERSARIAL_REVIEW.md:165` and `:256` ("No writer preference
mechanism") deny it.  The code is on the side of the comment: in `shared_mutex`
`WriterPreference` says that no reader gets in past a writer that was waiting
already, and `WriterReturns` that a registered writer gets in although readers
come back without end.  `ADVERSARIAL_REVIEW.md:166`, "Continuous stream of readers
could starve writers indefinitely", is about this very case and is refuted by
it.  The starvation that is left lies elsewhere: writers among themselves
have no order, so `WriterReturns` needs `MaxWrites`, and readers wait for as long
as new writers keep registering.

**CondVar.**  `SignalsSuffice` is an accounting of wake-ups: while a consumer
dozes, items are covered by awake consumers and pending notifications, so one
`signal()` per item is enough.  One producer notifies before or after
`unlock()`; a timed consumer gives up at any moment.  The interrupt bound only
limits EINTR returns.

**Finding: `broadcast(mutex)`.**  On Linux it increments `seq_` and then asks
for a requeue *if `seq_` still has the old value*, which it never has
(`psync_condvar.h:132`).  As the code stands the comparison is not even reached:
`psync_platform.h:376-377` number the requeue operations 12 and 13, where the
kernel has 3 and 4.  Kernels before 5.14 know no operation 13 (ENOSYS); later
ones lock a priority-inheriting futex under that number and take the count
0x7fffffff for the address of a deadline, where there is none (EFAULT).  In every
case the call fails and nobody is woken or moved, which is all the model says of
it.  `condvar_requeue` ends with the consumer asleep and its item
in the queue.

**Parking lot.**  `NodesAccounted` says that a node is on at most one list, or
in one unparker's hands, exactly while its thread is in `park()`: the dangling
stack node is its violation.  `FlaggedIsWoken` says that a sleeping thread whose
flag is set has a wake coming.  The instance puts both locks in one bucket so that `unpark_one`
has to pass foreign nodes; three threads are an owner and two queued nodes.

**Finding: TaggedLockPtr loses a wake-up.**  `unlock()` between the load and the
`fetch_or` of the validation callback takes its no-waiters path; the contender
then sets WAITERS on a free lock and parks (`psync_tagged_ptr.h:246`).  The next
`lock()`/`unlock()` pair frees it, but nothing says there is one.  Liveness is
therefore stated for the MicroLock only.

**EpochManager.**  `NoUseAfterFree` is the promise of the class.  `SlotsOwned`
is what it rests on, and is not obvious: `register_thread()` makes a single pass
over the slots, and a slot that is given back behind the pass is not found.  Two
concurrent reclaimers let the epoch advance during a scan, and two calls of each
are what it takes to free a node (one to advance, one to free); three nodes let
a retired one be on the list while another is taken out of the pointer.
`RetiredAccounted` says that every node is in exactly one place.

**Finding: the store of `enter()`.**  It is a release store followed by a
compiler fence, and nothing keeps the processor from satisfying the reader's
next load first (`psync_epoch.h:82`).  In `epoch_store_buffer` the reader has
loaded the pointer, its slot still looks inactive, the node is retired and two
`try_reclaim()` calls delete it.  All other results about the manager are for
the machine on which that store is visible at once.

**MPSCQueue.**  `ImplementsQueue` refines the abstract queue: `items` is read
off the claimed positions, numbered by their rank (`Nth`), so values leave in the
order of the claims.  `pending` are the values whose push has claimed a position
and not published it: only such a push withdraws, and only its own value, so a
value whose push returned true leaves the queue through the consumer alone.  That
it does leave, while the queue is open, is `DeliveredWhileOpen`.
`SizeSettles` says that `size_approx_`, which wraps when the consumer counts a
value out before its producer counts it in, comes right again; `SizeModulus`
stands for 2^64.  Two slots and four pushes make the ring wrap twice with a slow
producer still holding an old position.

**Finding: close() loses accepted values.**  A push that has claimed a position
and then sees `closed_` stores the old sequence number and leaves `head_`
advanced (`psync_mpsc_queue.h:67`).  The consumer never gets past that position,
and a value accepted behind it is not delivered although its `try_push()`
returned true.

**SPSCQueue and MPSCIntrusiveQueue.**  The ring's six values pass twice around the
index space, so that every cached index has been one turn behind.  `LiveSlots` is
what placement new and the explicit destructor call require: an object is
constructed only in raw memory and moved out only of a live slot, and none
leaks in the destructor.  For the list, `EntriesOwned` says that `pop()` never
returns an entry a producer is about to link to; three entries and four pushes
make entries come back while others are in the list.  `items` of the
refinement is read off the links, including those that are still to be written
(`LeadsTo`): the entries that links lead to from `tail_`, where the k-th is the
one that leads to all but k - 1 of them.
`Delivered` holds for a consumer that keeps calling.  In these two queues a push
is over when it has taken its place (`pending` is empty in both mappings), so
none ever withdraws.

**The small primitives.**  `SleepersCovered` is the safety half of "no lost
wake-up", stated for each primitive by what its wake covers; for the semaphore,
whose `release(n)` wakes n threads, it is a count: tokens are matched by wakes
still to be made and by threads awake to take them.  `EveryoneReturns` is the
liveness half.  Calls of 2, 2 and 1 are what it takes for a releaser to come back
while one thread sleeps and another has just been woken.  `BarrierInPhase`
compares arrivals and departures of every two threads: fast threads are in the
next phase while slow ones have not left, and with `PhaseModulus` 2 and three
phases the phase number wraps in the run.  A participant is never two phases
behind, so two values are enough to tell phases apart.  `RunsOnce` includes a
callable that throws while others sleep.  `SnapshotConsistent` lets several
whole writes pass between two reads of a reader.  `TicketFifo` and
`LocksImplement` need the window in `try_lock()` between its three accesses;
`TicketModulus` 5 is the smallest for which no thread is overtaken by a whole
turn of the counter, and the tickets of five calls wrap.  `GuardsBalanced` covers
any sequence of operations on the objects, which are unbounded: each lock the
thread holds has one party that will undo it, an object, a LockGuard or the
client, and they add up to what is held.  An exclusive lock has one party; a
shared one may be held by several `SharedLock`s at once, as
`test_main.cc:369-373` does.  `MaxHeld` 3 lets each of the three objects own the
same mutex.

**Finding: the Windows fallback of the futex.**  All sleepers of a slot share one
flag `waiting`; a thread that returns from its sleep, or whose comparison fails,
clears it (`psync_platform.h:655`, `:647`), and a later `wake()` does nothing
although others still sleep there.  In `futex_fallback` one thread
sleeps in `acquire()` and another in `try_acquire_for()`; one of them leaves the
slot and clears the flag, and the next `release()` does not wake the other.  Two words whose addresses fall into one slot make it worse and
are not needed for it.

A comment that the model cannot check: `psync_barrier.h:17` speaks of "an
optional completion function"; the class has none.

**Bounds.**  `MaxCalls`, `MaxWrites`, `MaxInterrupts`, `MaxPushes`,
`MaxValues`, `MaxReclaims`, `MaxNodes`, `MaxPhases`, `MaxThrows` and `MaxHeld` bound the
calls of the clients; the counters of the locks are unbounded in the models (those of the rings, the
barrier and the ticket lock wrap), which stand for runs
that stay below 2^31 waiters (Mutex), 2^15 waiting writers and 2^16 readers
(SharedMutex), 2^32 notifications (seq_) and 2^31 writes during one read
(SeqLock).

**Fairness.**  Weak fairness of each thread's own steps: the operating system
eventually runs a runnable thread, and an owner eventually unlocks.  No fairness
on new calls, interruptions or deadlines, except that the producers of
`CondVar` do put their items and the clients of the queues keep calling.  In
`Primitives` it is `WF_vars(Run(t))` for each thread, which includes the unlock of
an owner and the return of a callable and of a write, and leaves out calls, the
`wait(token)` of the barrier, deadlines and signals.  Weak fairness is enough for
the compare-exchange loops because the number of steps that can make another
thread's attempt fail is bounded by the calls; in the shared mutex a waiting
writer shuts new readers out.

## 4. Proofs

The theorems hold for every finite set of threads and every bound on the calls;
the assumptions are the ASSUMEs of the component modules, which TLC evaluates on
the instances, and hypotheses stated in the theorems themselves.  Most ASSUMEs
say that sets are finite and bounds natural.  The others:

* `ParkingLot`, `TaggedLockPtr`: there is at least one lock and one pointer value.
* `Barrier`: the phase counter has at least two values (2^32 in the code).
* `SpinLocks`: there are more tickets (2^32) than threads, and more than the other
  threads of any one make calls in the whole run.  What the proof uses is that
  they do not draw a whole turn of tickets while one thread stands still in
  `try_lock()`; the assumption is stronger, because it bounds all their calls.
* `SPSCQueue`: the index modulus (2^64) is a multiple of the capacity and greater,
  and the capacity is at least 2.  `RoundUpPow2` yields such a capacity for every
  request; that it does for *every* one is an induction the prover cannot do.
* `MPSCIntrusiveQueue`: the consumer is no producer, the entries are finitely many,
  and the stub and `nullptr` are none of them.
* `MPSCQueue`: `SizeModulus` (2^64) exceeds capacity and producers together.
* `EpochProofs`: `EnoughSlots`, at least as many slots as readers, is a hypothesis
  of `SlotsAreOwned` and `ReadersAreSafe`.
* `SleepingProofs`: `SleepersAlwaysCovered` has the hypothesis `Backend =
  "futex"`; over the Windows fallback it is false (run `futex_fallback`).

Each inductive invariant below was checked by TLC on an instance before it was
proved.

`MutexProofs`.  `NoLostWakeup` is not inductive on its own: whether an unlock
may skip the wake depends on the waiter count being exact, whether a thread may
go to sleep depends on the word it loaded being a locked one, and whether an
acquisition preserves the ownership bit depends on the word it compared being a
free one.  The inductive invariant is

    IInv == TypeOK /\ OwnerInv /\ LocalInv /\ WaitersCounted /\ NoLostWakeup

`OwnerInv` ties the LOCKED flag to the one owner, `LocalInv` says what
`lock_contended()` knows of its local `current` at the compare-exchange
(unlocked) and at the futex call (locked).  There is one lemma per action;
`Invariance` combines them.  From it follow `TypeCorrect`, `WaitersAreCounted`,
`NoWakeupIsLost` and the refinement
`MutexImplementsLock`.  The critical case of `NoLostWakeup` is `FutexWait`: the
sleeper's word equals the current one and is locked, so the premise is false in
the next state.  For `UnlockFast` it is the exact count: a zero waiter field
means that no thread is registered, hence none sleeps.

`SharedMutexProofs`.  The invariant has the same parts (`ExclusionInv` for the
word and the owners, `LocalInv` for the locals, `CountsExact`, `NoLostWakeup`);
what is new is the reader count, which must be exact for the last reader to know
that it is the last.  `Invariance` gives `TypeCorrect`, `CountsAreExact`,
`NoWakeupIsLost`, the action property `WritersArePreferred` and the refinement
`SharedMutexImplementsLock`.

`EpochProofs`.  `ReadersAreSafe` says that no node is deleted under a reader, on
the machine of `Spec`, with at least as many slots as readers (`EnoughSlots`).
The invariant is

    IInv == /\ EpochTypeOK /\ ReadersInside /\ Unlinked /\ MinEpoch /\ Protected
            /\ NoUseAfterFree

`Protected` carries the argument.  If the node a reader has a pointer to has been
retired with epoch e, then the epoch in the reader's slot is at most e, and so is
every `min_epoch` whose scan has passed that slot.  When the reader follows the
pointer, the node is still linked (`Unlinked`), hence not retired.  When it is
retired, e is the global epoch, which bounds the reader's epoch
(`ReadersInside`) and every `min_epoch` (`MinEpoch`).  When a scan passes the
slot, it reads the reader's epoch.  A sweep deletes what was retired strictly
before its `min_epoch`, and so not this node.

The last argument but one needs a slot in use that nobody else writes:
`SlotsOwned`.  It is proved as `SlotsAreOwned` from `SlotsAhead`: a slot in use
has a registered owner, so a reader that moves past slot i leaves one reader
behind, and of n readers at most n - i are ever at slot i or past it.  A reader
that found the last slot taken would be one too many.

`NodesAccounted` proves `RetiredAccounted` from an invariant of its own,
`NodeBooks`: the places a node can be in are told apart node by node, and a list
entry is determined by its node, whence the count.

`CondVarProofs`.  `SignalsSuffice` counts: while a consumer dozes, the items are
no more than the consumers awake inside `wait()` and the notifications owed.
The step to fear is the one into the sleep, between the unlock of the mutex and
the futex call.  `LoadedEmpty` covers it: a consumer that still holds the current
`seq_` loaded it, under the mutex, when there was no item, so every item there is
now was put by a producer that has not incremented `seq_` yet, and that producer
still owes its notification.  To say "under the mutex" the proof needs the
exclusion of the mutex with all its steps (`MutexInv`), which is proved again
here, since theorems of an INSTANCE with assumptions cannot be cited.
`SignalsAlwaysSuffice` and `ClientsActAsOwners` follow from `CondVarInvariance`.

`ParkingProofs`.  The invariant is

    ParkingInv == LotTypeOK /\ BucketInv /\ NodeInv /\ FlaggedIsWoken /\ WordInv
                  /\ OwnerInv /\ WaitersBitSet /\ MicroNoLostWakeup

Its steps are first sorted by their effect on the lot (`LotEffect`: quiet, the
wait loop, entering and leaving a bucket, appending, unlinking, flagging, waking),
and `BucketInv` and `NodeInv` are proved once per effect, for both locks
together.  `NodeInv` needs more than `NodesAccounted`: a node is in at most one
thread's hands, the nodes in one pair of hands are distinct, and hands are empty
outside an unpark.  For `MicroNoLostWakeup` the critical steps are the appending
of a node, which the validation allows only while the lock is held, and the
unlinking of one: the thread whose node it was, no longer queued, is the
contender that will look again.  Nothing of the kind holds for `TaggedLockPtr`
(run `tagged_lost_wakeup`), but the bit does cover the queue: `WaitersBitSet` is
preserved because the callback that clears it runs in the bucket and sees that
the node it took was the last.

`SleepingProofs`.  One invariant per primitive (`LatchInv`, `BatonInv`, `OnceInv`,
`BarrierInv`, `SemaphoreInv`).  For latch, baton and once-flag it is the sleeper's
condition together with what the local variable is known to be.  For the barrier
it says that there is a number P of finished phases such that everybody has
arrived P or P + 1 times; the tokens are the phase number or the one before, and
`arrived` counts the missing ones, except while the last thread resets it
(`PhaseInv`).  For the semaphore it is the count of `SleepersCovered`; a
`release(n)` announces n wakes, a futex call turns announced wakes into awake
threads, and the case that no thread is left asleep makes the claim void.
Sums over threads are cardinalities of sets of pairs (`Units`), for which
`UnitsAdd` is the one lemma needed.

`SpinningProofs`.  `SeqInv`: as long as the sequence number is the one a reader
began with, what it has copied is what the cells held then; a number that changed
never comes back.  For the lock objects, `OwnershipInv` says that an owning object
has a mutex and `LedgerInv` is the balance of `GuardsBalanced`: each operation
touches one object, or two that trade places, so the number of owners of a mutex
changes by at most one with the lock it takes, gives back or hands over
(`OwnersChange`).  `TicketInv` for the
ticket lock: distances are taken modulo the counter (`Dist`); the tickets between
`now_serving_` and `next_ticket_` are those of the owner and the waiters
(`QueueInv`), and a `try_lock()` that has read `now_serving_` sees both counters
ahead of it by less than a turn (`TryInv`, which needs the budget of calls), so
its compare-exchange succeeds only if nothing has happened in between.

`QueueProofs`.  For the single-producer ring,

    RingInv == RingTypeOK /\ CopiesOld /\ Relied /\ RingContents

A cached index is old by less than the ring (`CopiesOld`), so each side errs on
the safe side; `Relied` is what a side has found out and still depends on;
`RingContents` says which slots are raw and which value each of the others holds.
All differences are modulo the index width, and the slot of an index is well
defined because the capacity divides the modulus.  `RingSlotsAlwaysLive` follows
at once, `RingImplements` by showing what each step does to the values between
the indices.

For the multi-producer ring, `SlotsInv` says what the sequence number of every
slot means (`SequenceOK`): a position in the window from `tail_` to `head_` is
claimed, withdrawn or published, one after it is free, except for the slot the
consumer is about to hand back.  `ClaimsOK` gives every claimed position one
owner and makes the compare-exchange of `head_` safe against a stale look at the
slot.  `CountOK` is the account: pushes counted plus pushes published and not yet
counted equal the values received plus the published ones.  `SizeAlwaysSettles`
follows, since with nobody inside a call the difference is less than the modulus.

`SlotsImplement` is the refinement of the same queue.  The mapping takes the live
positions of the window (claimed or published, not withdrawn) in the order of
their ranks; `NthAdded` and `NthRemoved` say how the numbering changes when a
greatest position joins or any position leaves, so a claim appends a value, a
push that reverts removes its own, a pop takes the first, and every other step
leaves the sequence alone; publishing commits the push (`PendingLess`).  Besides `SlotsInv` this needs `Holding`: what is about
to be published has been written, by its owner and by nobody since.

For the intrusive list,

    ListInv == ListTypeOK /\ LineOK /\ LinkersOK /\ PushersOK /\ PoolOK /\ StubOK

`Links` are the links stored or still to be stored by a thread between its
exchange and its store.  What they lead to from a node (`Reach`) is the least set
with that node in it that no link leaves, which takes no recursion and no
induction to reason about.  `LineOK` says that from `tail_` the links lead along
one line, without a fork or a cycle, to `head_`: an exchange puts a node after the
last (`LineGrows`), a pop leaves the first behind (`LineMoves`), a store through
`prev` changes none of the links, and whatever happens to a node outside the line
does not matter to it (`LineSame`).  The other parts say who may touch what:
a thread that is about to store does so through a node of the list whose `next` is
null, and no other thread through the same one (`LinkersOK`); what is about to
enter the list is not in it (`PushersOK`); an entry is with the client, in the
list or with one pusher (`PoolOK`); the stub is outside the list when `pop()`
pushes it (`StubOK`), because `tail == head` has left the line with one node, which
is not the stub, and only entries join it until then.  `EntriesAlwaysOwned`
follows by counting three disjoint sets.  For `ListImplements` an entry's place is
the number of entries that are not behind it; on a line the places are the
numbers from 1 on (`PlacesAre`), so a sequence that holds every entry at its
place is unique (`OrderUnique`), and it remains to say what each change of the
line does to the places (`OrderGrows`, `OrderMoves`, `OrderKept`).

Not proved, only model-checked: all liveness (`LockReturns`, `WriterReturns`,
`ReaderWakes`, `WaitReturns`, `MicroLockReturns`, `DeliveredWhileOpen`, `Delivered`,
`EveryoneReturns`), which needs fairness and ENABLED and is outside the prover's
reach.

## 5. Not modelled

* The macOS back end of the futex; `WaitOnAddress` and its lazy initialisation;
  the slots of the Windows fallback that two words share, and its unsynchronised
  initialisation.  (The fallback itself is modelled, for one word.)
* Weak memory orders, except the store of `enter()`; data protected by
  the locks.  In particular `SeqLock` relies on the order of plain loads, which
  x86-64 keeps and `compiler_fence()` on ARM64 does not.
* `psync_platform.h`'s atomics, CPU detection and test helpers; `CachePadded`
  (layout); telemetry, `BatchCounter` and `BatchTracker` (counters and time stamps
  that no lock and no client decision reads: an update lost there changes a
  report).
* The concrete clock: a deadline is a flag that becomes true at any moment.
* Field overflow of the packed words; a sequence number or a ticket counter that
  makes a whole turn while one thread stands still.
* Clients that break the rules of a class: a latch counted past zero (the counter
  wraps and later waiters never return), a `reset()` of a baton that threads sleep
  on (the next `post()` wakes nobody; the model is narrower than this rule, only a
  thread whose own wait returned resets, while `test_main.cc:758` resets after the
  waiter was joined), two writers of a `SeqLock`.
* Deleters that call back into the `EpochManager`; more readers than slots, where
  slot 0 is shared and the class promises nothing in writing.
* A thread that takes a second shared lock of one `SharedMutex` while it has the
  first: a writer that registers in between makes it sleep behind the writer,
  which waits for the first.  `SharedMutex` has one call per thread at a time;
  `Guards` lets a thread hold a mutex shared several times, but its mutexes have
  no waiting writers.
* `TaggedLockPtr::exchange()` on a pointer that other threads are locking: it
  overwrites the lock bits, and no document says what it promises then.

## 6. Plan

Done: every component with state, except those of section 5, their abstract
specifications, and the proof of every safety property and every refinement of the
passing runs.  What a later extension of the code would add is in section 5;
liveness stays with TLC.
