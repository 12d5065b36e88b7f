------------------------------ MODULE MicroLock ------------------------------
(***************************************************************************)
(* psync::MicroLock (psync_microlock.h): a one-byte lock that parks its    *)
(* waiters in the parking lot.  The byte has no waiter bit: every unlock() *)
(* goes to the parking lot.                                                *)
(***************************************************************************)
EXTENDS ParkingLot

CONSTANT MicroLocks     \* the MicroLocks among Locks

VARIABLE locked         \* locked[l]: the byte state_ is LOCKED

InitMicro == locked = [l \in MicroLocks |-> FALSE]

MicroOwners(l) == {t \in Threads : target[t] = l /\ pc[t] = "in"}

\* The compare-exchange UNLOCKED -> LOCKED on the thread's lock.
MicroTryAcquire(t, l, otherwise) ==
    /\ IF ~ locked[l]
       THEN locked' = [locked EXCEPT ![l] = TRUE] /\ Goto(t, "in")
       ELSE locked' = locked /\ Goto(t, otherwise)
    /\ UNCHANGED lotVars

MicroLockCall(t, l) ==
    /\ pc[t] = "out"
    /\ target' = [target EXCEPT ![t] = l]
    /\ MicroTryAcquire(t, l, "spin")

MicroTryLock(t, l) ==
    /\ pc[t] = "out"
    /\ target' = [target EXCEPT ![t] = l]
    /\ MicroTryAcquire(t, l, "out")

\* lock_contended(): the last attempt of the spin (earlier failures stutter).
MicroSpin(t) ==
    /\ pc[t] = "spin" /\ target[t] \in MicroLocks
    /\ MicroTryAcquire(t, target[t], "park_bucket")
    /\ UNCHANGED target

\* Mutant: parks without validation.
MicroParkBlindly(t) ==
    /\ pc[t] = "validate" /\ target[t] \in MicroLocks
    /\ Enqueue(t)
    /\ UNCHANGED locked

\* park()'s validation, atomic_load(&state_) == LOCKED under the bucket lock.
MicroPark(t) ==
    /\ pc[t] = "validate" /\ target[t] \in MicroLocks
    /\ IF locked[target[t]] THEN Enqueue(t) ELSE Reject(t)
    /\ UNCHANGED locked

\* After park() returned, one attempt before spinning again.
MicroRetry(t) ==
    /\ pc[t] = "retry" /\ target[t] \in MicroLocks
    /\ MicroTryAcquire(t, target[t], "spin")
    /\ UNCHANGED target

\* unlock(): store UNLOCKED, then unpark_one(this) without a callback.
MicroUnlock(t) ==
    /\ pc[t] = "in" /\ target[t] \in MicroLocks
    /\ locked' = [locked EXCEPT ![target[t]] = FALSE]
    /\ Goto(t, "unpark_bucket")
    /\ UNCHANGED <<target, lotVars>>

MicroUnpark(t) ==
    /\ pc[t] = "unpark" /\ target[t] \in MicroLocks
    /\ Dequeue(t) \/ DequeueNone(t)
    /\ UNCHANGED locked

MicroStep(t) == MicroSpin(t) \/ MicroPark(t) \/ MicroRetry(t) \/ MicroUnpark(t)

-----------------------------------------------------------------------------
\* No lost wake-up: when a MicroLock is free and a node is parked on it, an
\* unlock() is still on its way to the queue, or a contender is awake and
\* will take the lock (and unpark the next one when it leaves).
MicroNoLostWakeup ==
    \A l \in MicroLocks :
        (~ locked[l] /\ Waiting(l) # {}) =>
            Served(l, {"unpark_bucket", "unpark", "spin", "park_bucket",
                       "validate", "parked", "park_wait", "asleep", "retry"})
=============================================================================
