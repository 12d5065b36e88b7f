------------------------------ MODULE ParkingLot ------------------------------
(***************************************************************************)
(* psync::ParkingLot (psync_microlock.h): the global table of wait queues  *)
(* behind MicroLock and TaggedLockPtr.  A lock address hashes to a bucket; *)
(* several locks may share one.  A bucket is a spinlock and a linked list  *)
(* of stack-allocated WaiterNodes.                                         *)
(*                                                                         *)
(* A thread has one node, that of its lock_contended() frame, so a node is *)
(* named by its thread and its key is the lock the thread is called on.    *)
(* The list head..tail is the sequence `queue': it is only touched under   *)
(* the bucket's spinlock.  Accesses under that spinlock that no other      *)
(* thread can see are taken together with the shared access they go with   *)
(* (the validation's load, the store of wake_flag) and with the store that *)
(* releases the bucket.                                                    *)
(*                                                                         *)
(* After the bucket is released the node of an unparked thread may be gone *)
(* (its owner saw wake_flag and returned): futex::wake then hits whatever  *)
(* sleeps at that address, here a later park() of the same thread.         *)
(*                                                                         *)
(* Operations begin with pc "park_bucket", "unpark_bucket", "all_bucket"   *)
(* and end with "retry" (park) or "out".  The locks built on top decide    *)
(* what happens under the bucket lock: see Enqueue, Reject and Dequeue.    *)
(***************************************************************************)
EXTENDS Integers, Sequences, SequencesExt, FiniteSets

CONSTANTS
    Threads,        \* threads, and their waiter nodes
    Locks,          \* lock addresses
    Buckets,        \* the buckets_ array (64 of them in the code)
    hash_address,   \* hash_address[l]: the bucket of lock l
    NoThread        \* "nobody": a free bucket

ASSUME ParkingLotAssumption ==
    /\ IsFiniteSet(Threads)
    /\ hash_address \in [Locks -> Buckets]
    /\ NoThread \notin Threads
    /\ Locks # {}

VARIABLES
    pc,             \* pc[t]: where thread t is
    target,         \* target[t]: the lock t's call is about (and its node's key)
    bucket_lock,    \* bucket_lock[b]: the thread in bucket b, or NoThread
    queue,          \* queue[b]: the waiter nodes of bucket b
    wake_flag,      \* wake_flag[t]: the flag of t's node
    woken           \* woken[t]: nodes t has taken off a queue and not yet woken

lotVars == <<bucket_lock, queue, wake_flag, woken>>

Goto(t, label) == pc' = [pc EXCEPT ![t] = label]

BucketOf(t) == hash_address[target[t]]

\* The places in the bucket's list of the nodes parked on lock l.
Waiting(l) ==
    {i \in DOMAIN queue[hash_address[l]] : target[queue[hash_address[l]][i]] = l}

Queued(t) == \E i \in 1 .. Len(queue[BucketOf(t)]) : queue[BucketOf(t)][i] = t

\* Some thread called on lock l is at one of these labels and not parked in
\* the queue: it will look at the lock, or at its queue, again.
Served(l, labels) ==
    \E t \in Threads : target[t] = l /\ pc[t] \in labels /\ ~ Queued(t)

InitLot ==
    /\ pc = [t \in Threads |-> "out"]
    /\ target = [t \in Threads |-> CHOOSE l \in Locks : TRUE]
    /\ bucket_lock = [b \in Buckets |-> NoThread]
    /\ queue = [b \in Buckets |-> <<>>]
    /\ wake_flag = [t \in Threads |-> 0]
    /\ woken = [t \in Threads |-> <<>>]

\* lock_bucket(): the compare-exchange that succeeds; failed ones stutter.
LockBucket(t) ==
    /\ bucket_lock[BucketOf(t)] = NoThread
    /\ \/ pc[t] = "park_bucket"   /\ Goto(t, "validate")
       \/ pc[t] = "unpark_bucket" /\ Goto(t, "unpark")
       \/ pc[t] = "all_bucket"    /\ Goto(t, "all_collect")
    /\ bucket_lock' = [bucket_lock EXCEPT ![BucketOf(t)] = t]
    /\ UNCHANGED <<target, queue, wake_flag, woken>>

UnlockBucket(t) == bucket_lock' = [bucket_lock EXCEPT ![BucketOf(t)] = NoThread]

\* Mutant: leaves the flag of the thread's previous park in the node.
EnqueueStaleFlag(t) ==
    /\ queue' = [queue EXCEPT ![BucketOf(t)] = Append(@, t)]
    /\ UnlockBucket(t)
    /\ Goto(t, "parked")
    /\ UNCHANGED <<target, wake_flag, woken>>

\* park(), validation succeeded: append the node and release the bucket.
Enqueue(t) ==
    /\ queue' = [queue EXCEPT ![BucketOf(t)] = Append(@, t)]
    /\ wake_flag' = [wake_flag EXCEPT ![t] = 0]
    /\ UnlockBucket(t)
    /\ Goto(t, "parked")
    /\ UNCHANGED <<target, woken>>

\* park(), validation failed: release the bucket and return false.
Reject(t) ==
    /\ UnlockBucket(t)
    /\ Goto(t, "retry")
    /\ UNCHANGED <<target, queue, wake_flag, woken>>

\* The wait loop of park(): load wake_flag ...
CheckFlag(t) ==
    /\ pc[t] = "parked"
    /\ Goto(t, IF wake_flag[t] = 1 THEN "retry" ELSE "park_wait")
    /\ UNCHANGED <<target, lotVars>>

\* ... and futex::wait(&node->wake_flag, 0).
ParkWait(t) ==
    /\ pc[t] = "park_wait"
    /\ Goto(t, IF wake_flag[t] = 0 THEN "asleep" ELSE "parked")
    /\ UNCHANGED <<target, lotVars>>

\* A wait that returns without a wake (EINTR).
SpuriousWake(t) ==
    /\ pc[t] = "asleep"
    /\ Goto(t, "parked")
    /\ UNCHANGED <<target, lotVars>>

\* Mutant: takes the first node of the bucket, whatever its key.
DequeueAnyKey(t) ==
    /\ queue[BucketOf(t)] # <<>>
    /\ queue' = [queue EXCEPT ![BucketOf(t)] = Tail(@)]
    /\ woken' = [woken EXCEPT ![t] = <<Head(queue[BucketOf(t)])>>]
    /\ Goto(t, "unpark_flag")
    /\ UNCHANGED <<target, bucket_lock, wake_flag>>

\* Unlink the first node of the thread's key, and keep it to be woken.
Unlink(t) ==
    \E i \in Waiting(target[t]) :
        /\ \A j \in Waiting(target[t]) : i <= j
        /\ queue' = [queue EXCEPT ![BucketOf(t)] = RemoveAt(@, i)]
        /\ woken' = [woken EXCEPT ![t] = Append(@, queue[BucketOf(t)][i])]

\* unpark_one() under the bucket lock.  The caller's callback is conjoined by
\* the lock.
Dequeue(t) ==
    /\ Unlink(t)
    /\ Goto(t, "unpark_flag")
    /\ UNCHANGED <<target, bucket_lock, wake_flag>>

\* unpark_one() finds no node of this key: UnparkResult::None.
DequeueNone(t) ==
    /\ Waiting(target[t]) = {}
    /\ UnlockBucket(t)
    /\ Goto(t, "out")
    /\ UNCHANGED <<target, queue, wake_flag, woken>>

\* Mutant: sets the flag and forgets the futex wake.
SetFlagOnly(t) ==
    /\ pc[t] = "unpark_flag"
    /\ wake_flag' = [wake_flag EXCEPT ![Head(woken[t])] = 1]
    /\ woken' = [woken EXCEPT ![t] = <<>>]
    /\ UnlockBucket(t)
    /\ Goto(t, "out")
    /\ UNCHANGED <<target, queue>>

\* unpark_one(): set wake_flag, then release the bucket.
SetFlagAndUnlock(t) ==
    /\ pc[t] = "unpark_flag"
    /\ wake_flag' = [wake_flag EXCEPT ![Head(woken[t])] = 1]
    /\ UnlockBucket(t)
    /\ Goto(t, "unpark_wake")
    /\ UNCHANGED <<target, queue, woken>>

\* unpark_all(lock_address), called from outside any lock.
UnparkAll(t, l) ==
    /\ pc[t] = "out"
    /\ target' = [target EXCEPT ![t] = l]
    /\ Goto(t, "all_bucket")
    /\ UNCHANGED lotVars

\* unpark_all() under the bucket lock: unlink every node of this key, one
\* after the other, and release the bucket when there is none left.
CollectAll(t) ==
    /\ pc[t] = "all_collect"
    /\ \/ Unlink(t) /\ UNCHANGED <<pc, bucket_lock>>
       \/ /\ Waiting(target[t]) = {}
          /\ UnlockBucket(t)
          /\ Goto(t, IF woken[t] = <<>> THEN "out" ELSE "all_flag")
          /\ UNCHANGED <<queue, woken>>
    /\ UNCHANGED <<target, wake_flag>>

\* unpark_all(): the flag of the next collected node, outside the bucket.
SetNextFlag(t) ==
    /\ pc[t] = "all_flag"
    /\ wake_flag' = [wake_flag EXCEPT ![Head(woken[t])] = 1]
    /\ Goto(t, "unpark_wake")
    /\ UNCHANGED <<target, bucket_lock, queue, woken>>

\* futex::wake(&node->wake_flag, 1) of unpark_one() and unpark_all().
UnparkWake(t) ==
    /\ pc[t] = "unpark_wake"
    /\ LET node == Head(woken[t])
       IN pc' = [u \in Threads |->
                    IF u = t THEN IF Tail(woken[t]) = <<>> THEN "out" ELSE "all_flag"
                    ELSE IF u = node /\ pc[u] = "asleep" THEN "parked"
                    ELSE pc[u]]
    /\ woken' = [woken EXCEPT ![t] = Tail(@)]
    /\ UNCHANGED <<target, bucket_lock, queue, wake_flag>>

\* The steps of the parking lot that are the same for every lock.
LotStep(t) ==
    \/ LockBucket(t)
    \/ CheckFlag(t) \/ ParkWait(t)
    \/ SetFlagAndUnlock(t)
    \/ CollectAll(t) \/ SetNextFlag(t)
    \/ UnparkWake(t)

-----------------------------------------------------------------------------
\* Labels at which a thread is inside a bucket's critical section
\* ("set_waiters" belongs to the validation callback of TaggedLockPtr).
InBucket == {"validate", "set_waiters", "unpark", "unpark_flag", "all_collect"}

\* A bucket's list is only touched by the thread its lock_state names, a
\* node is in at most one list and at most once, and a parked thread is
\* still to be found: its node is queued, or in the hands of an unparker,
\* or flagged.  (A node that is none of these sleeps for ever; one that is
\* queued after its thread returned is a dangling stack pointer.)
NodesAccounted ==
    /\ \A t \in Threads :
          pc[t] \in InBucket <=> \E b \in Buckets : bucket_lock[b] = t
    /\ \A b \in Buckets : \A i, j \in 1 .. Len(queue[b]) :
          queue[b][i] = queue[b][j] => i = j
    /\ \A t \in Threads :
          LET inHand  == \E u \in Threads : \E i \in 1 .. Len(woken[u]) :
                            /\ woken[u][i] = t
                            /\ pc[u] = "unpark_wake" => i > 1
              waiting == pc[t] \in {"parked", "park_wait", "asleep"}
          IN  /\ Queued(t) \/ inHand => waiting /\ wake_flag[t] = 0
              /\ waiting /\ wake_flag[t] = 0 => Queued(t) \/ inHand
              /\ ~ (Queued(t) /\ inHand)

\* A thread that sleeps although its flag is set is about to be woken.
FlaggedIsWoken ==
    \A t \in Threads :
        pc[t] = "asleep" /\ wake_flag[t] = 1 =>
            \E u \in Threads : /\ pc[u] = "unpark_wake"
                               /\ Head(woken[u]) = t
=============================================================================
