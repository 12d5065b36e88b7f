---------------------------- MODULE TaggedLockPtr ----------------------------
(***************************************************************************)
(* psync::TaggedLockPtr (psync_tagged_ptr.h): a pointer whose low bits are *)
(* a lock.  The 64-bit word is the record of LOCKED_BIT, WAITERS_BIT and   *)
(* the pointer; MARKED_BIT is reserved and no operation touches it.        *)
(*                                                                         *)
(* lock_contended() spins, then parks.  The callback that validates the    *)
(* park runs under the bucket lock, but the word itself is not protected   *)
(* by that lock: its load and its fetch_or are two steps here, as they are *)
(* two accesses in the code.                                               *)
(***************************************************************************)
EXTENDS ParkingLot

CONSTANTS
    TaggedPtrs,     \* the TaggedLockPtrs among Locks
    Pointers        \* pointer values

VARIABLES
    word,           \* word[l]: tagged_ptr_
    seen            \* seen[t]: local `current' of t's call

\* A pointer as the constructor, exchange() and compare_exchange() store it:
\* the cast value with the three low bits zero.
Untagged(p) == [locked |-> FALSE, waiters |-> FALSE, ptr |-> p]

\* The pointer the TaggedLockPtrs are constructed with.
first_ptr == CHOOSE p \in Pointers : TRUE

\* A local `current' that has gone out of scope.
NoWord == Untagged(first_ptr)

InitTagged ==
    /\ word = [l \in TaggedPtrs |-> Untagged(first_ptr)]
    /\ seen = [t \in Threads |-> NoWord]

TaggedOwners(l) ==
    {t \in Threads : target[t] = l /\ pc[t] \in {"in", "unlock_load", "unlock_cas"}}

\* current = atomic_load(&tagged_ptr_), and the test of LOCKED_BIT.
LoadThen(t, l, free, held) ==
    /\ IF word[l].locked THEN seen' = seen /\ Goto(t, held)
       ELSE seen' = [seen EXCEPT ![t] = word[l]] /\ Goto(t, free)
    /\ UNCHANGED <<word, lotVars>>

\* Mutant: stores current | LOCKED_BIT without comparing.
SetLockedByStore(t, failed) ==
    /\ word' = [word EXCEPT ![target[t]] = [seen[t] EXCEPT !.locked = TRUE]]
    /\ Goto(t, "in")
    /\ seen' = [seen EXCEPT ![t] = NoWord]
    /\ UNCHANGED <<target, lotVars>>

\* The compare-exchange current -> current | LOCKED_BIT.
SetLocked(t, failed) ==
    LET l == target[t]
    IN  /\ IF word[l] = seen[t]
           THEN word' = [word EXCEPT ![l].locked = TRUE] /\ Goto(t, "in")
           ELSE word' = word /\ \E label \in failed : Goto(t, label)
        /\ seen' = [seen EXCEPT ![t] = NoWord]
        /\ UNCHANGED <<target, lotVars>>

\* lock()
TaggedLock(t, l) ==
    /\ pc[t] = "out"
    /\ target' = [target EXCEPT ![t] = l]
    /\ LoadThen(t, l, "lock_cas", "spin")

TaggedReload(t) ==
    /\ pc[t] = "lock_load"
    /\ LoadThen(t, target[t], "lock_cas", "spin")
    /\ UNCHANGED target

TaggedLockCas(t) == pc[t] = "lock_cas" /\ SetLocked(t, {"lock_load"})

\* try_lock()
TaggedTryLock(t, l) ==
    /\ pc[t] = "out"
    /\ target' = [target EXCEPT ![t] = l]
    /\ LoadThen(t, l, "try_cas", "out")

TaggedTryCas(t) == pc[t] = "try_cas" /\ SetLocked(t, {"out"})

\* lock_contended(): a load of the spin loop.  Loads of a held lock stutter,
\* except the last one, after which the thread goes on to park.
TaggedSpin(t) ==
    /\ pc[t] \in {"spin", "retry"} /\ target[t] \in TaggedPtrs
    /\ LoadThen(t, target[t], "spin_cas", "park_load")
    /\ UNCHANGED target

\* A failed attempt of the spin is followed by the next one or, at the end
\* of the loop, by the load that precedes park().
TaggedSpinCas(t) == pc[t] = "spin_cas" /\ SetLocked(t, {"spin", "park_load"})

TaggedParkLoad(t) ==
    /\ pc[t] = "park_load"
    /\ LoadThen(t, target[t], "park_cas", "park_bucket")
    /\ UNCHANGED target

TaggedParkCas(t) == pc[t] = "park_cas" /\ SetLocked(t, {"park_load"})

\* The validation callback: the load and its two tests ...
TaggedValidate(t) ==
    /\ pc[t] = "validate" /\ target[t] \in TaggedPtrs
    /\ \/ ~ word[target[t]].locked /\ Reject(t)
       \/ word[target[t]].locked /\ word[target[t]].waiters /\ Enqueue(t)
       \/ /\ word[target[t]].locked /\ ~ word[target[t]].waiters
          /\ Goto(t, "set_waiters")
          /\ UNCHANGED <<target, lotVars>>
    /\ UNCHANGED <<word, seen>>

\* ... and atomic_fetch_or(&tagged_ptr_, WAITERS_BIT); then the node is queued.
TaggedSetWaiters(t) ==
    /\ pc[t] = "set_waiters"
    /\ word' = [word EXCEPT ![target[t]].waiters = TRUE]
    /\ Enqueue(t)
    /\ UNCHANGED seen

\* unlock(): the load ...
TaggedUnlock(t) ==
    /\ pc[t] \in {"in", "unlock_load"} /\ target[t] \in TaggedPtrs
    /\ seen' = [seen EXCEPT ![t] = word[target[t]]]
    /\ Goto(t, "unlock_cas")
    /\ UNCHANGED <<target, word, lotVars>>

\* ... and the compare-exchange current -> current & ~LOCKED_BIT, followed by
\* unpark_one() if WAITERS_BIT was set.
TaggedUnlockCas(t) ==
    /\ pc[t] = "unlock_cas"
    /\ IF word[target[t]] = seen[t]
       THEN /\ word' = [word EXCEPT ![target[t]].locked = FALSE]
            /\ Goto(t, IF seen[t].waiters THEN "unpark_bucket" ELSE "out")
       ELSE word' = word /\ Goto(t, "unlock_load")
    /\ seen' = [seen EXCEPT ![t] = NoWord]
    /\ UNCHANGED <<target, lotVars>>

\* Mutant: the callback ignores HasMoreWaiters.
MoreWaitersNever(l) == FALSE

\* The unpark callback: clear WAITERS_BIT unless more waiters remain.
MoreWaiters(l) == \E i, j \in Waiting(l) : i # j

TaggedUnpark(t) ==
    /\ pc[t] = "unpark" /\ target[t] \in TaggedPtrs
    /\ Dequeue(t) \/ DequeueNone(t)
    /\ word' = IF MoreWaiters(target[t]) THEN word
               ELSE [word EXCEPT ![target[t]].waiters = FALSE]
    /\ UNCHANGED seen

\* Mutant: compares the pointer bits only.
CompareExchangePtr(t, l, expected, desired) ==
    /\ pc[t] = "out"
    /\ word[l].ptr = expected
    /\ word' = [word EXCEPT ![l].ptr = desired]
    /\ UNCHANGED <<pc, target, seen, lotVars>>

\* compare_exchange(expected, desired): both have their low bits clear, so
\* it only succeeds on a word whose lock is free and has no waiters.
CompareExchange(t, l, expected, desired) ==
    /\ pc[t] = "out"
    /\ word[l] = Untagged(expected)
    /\ word' = [word EXCEPT ![l] = Untagged(desired)]
    /\ UNCHANGED <<pc, target, seen, lotVars>>

\* exchange(new_ptr) stores the whole word, flags included.
Exchange(t, l, new_ptr) ==
    /\ pc[t] = "out"
    /\ word' = [word EXCEPT ![l] = Untagged(new_ptr)]
    /\ UNCHANGED <<pc, target, seen, lotVars>>

TaggedStep(t) ==
    \/ TaggedReload(t) \/ TaggedLockCas(t) \/ TaggedTryCas(t)
    \/ TaggedSpin(t) \/ TaggedSpinCas(t)
    \/ TaggedParkLoad(t) \/ TaggedParkCas(t)
    \/ TaggedValidate(t) \/ TaggedSetWaiters(t)
    \/ TaggedUnlockCas(t) \/ TaggedUnpark(t)

-----------------------------------------------------------------------------
\* WAITERS_BIT covers the queue: whenever a node is parked on the pointer
\* the bit is set, so that the next unlock() looks for it.
WaitersBitSet ==
    \A l \in TaggedPtrs : Waiting(l) # {} => word[l].waiters

\* No lost wake-up, as for MicroLock: a free pointer with a parked node has
\* an unlock() on its way to the queue or an awake contender.
TaggedNoLostWakeup ==
    \A l \in TaggedPtrs :
        (~ word[l].locked /\ Waiting(l) # {}) =>
            Served(l, {"unpark_bucket", "unpark", "lock_load", "lock_cas",
                       "spin", "spin_cas", "park_load", "park_cas",
                       "park_bucket", "validate", "set_waiters",
                       "parked", "park_wait", "asleep", "retry"})
=============================================================================
