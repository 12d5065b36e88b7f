---------------------------- MODULE ParkingLocks ----------------------------
(***************************************************************************)
(* MicroLocks and TaggedLockPtrs over the one global parking lot           *)
(* (get_parking_lot()), used by threads that hold at most one lock at a    *)
(* time.  Locks of both kinds may share a bucket.                          *)
(***************************************************************************)
EXTENDS MicroLock, TaggedLockPtr

CONSTANT MaxCalls       \* bound: MaxCalls[t] is the number of calls t makes

ASSUME ParkingLocksAssumption ==
    /\ Locks = MicroLocks \cup TaggedPtrs
    /\ MicroLocks \cap TaggedPtrs = {}
    /\ Pointers # {}
    /\ MaxCalls \in [Threads -> Nat]

VARIABLE calls          \* calls[t]: calls t may still make

vars == <<pc, target, lotVars, locked, word, seen, calls>>

Init ==
    /\ InitLot /\ InitMicro /\ InitTagged
    /\ calls = MaxCalls

\* A new call of a client that holds no lock.  exchange() overwrites the
\* lock bits, so it is only for pointers no other thread is using.
Call(t) ==
    /\ calls[t] > 0
    /\ calls' = [calls EXCEPT ![t] = @ - 1]
    /\ \/ \E l \in MicroLocks :
             (MicroLockCall(t, l) \/ MicroTryLock(t, l)) /\ UNCHANGED <<word, seen>>
       \/ \E l \in TaggedPtrs :
             (TaggedLock(t, l) \/ TaggedTryLock(t, l)) /\ UNCHANGED locked
       \/ \E l \in TaggedPtrs, p, q \in Pointers :
             CompareExchange(t, l, p, q) /\ UNCHANGED locked
       \/ \E l \in TaggedPtrs, p \in Pointers :
             /\ \A u \in Threads : target[u] = l => pc[u] = "out"
             /\ Exchange(t, l, p)
             /\ UNCHANGED locked
       \/ \E l \in Locks : UnparkAll(t, l) /\ UNCHANGED <<locked, word, seen>>

Unlock(t) ==
    /\ UNCHANGED calls
    /\ \/ MicroUnlock(t) /\ UNCHANGED <<word, seen>>
       \/ TaggedUnlock(t) /\ UNCHANGED locked

Progress(t) ==
    /\ UNCHANGED calls
    /\ \/ LotStep(t) /\ UNCHANGED <<locked, word, seen>>
       \/ MicroStep(t) /\ UNCHANGED <<word, seen>>
       \/ TaggedStep(t) /\ UNCHANGED locked

Interrupted(t) == SpuriousWake(t) /\ UNCHANGED <<locked, word, seen, calls>>

\* Every thread has returned from its last call.
Finished ==
    /\ \A t \in Threads : pc[t] = "out" /\ calls[t] = 0
    /\ UNCHANGED vars

Next ==
    \/ \E t \in Threads : Call(t) \/ Unlock(t) \/ Progress(t) \/ Interrupted(t)
    \/ Finished

\* A runnable thread is eventually scheduled and an owner eventually
\* unlocks.  Calls are bounded, so a thread that keeps trying finds its
\* bucket's spinlock free in the end.
Fairness == \A t \in Threads : WF_vars(Progress(t) \/ Unlock(t))

Spec == Init /\ [][Next]_vars /\ Fairness

-----------------------------------------------------------------------------
Owners(l) == IF l \in MicroLocks THEN MicroOwners(l) ELSE TaggedOwners(l)

\* Every lock of both kinds implements the abstract lock.
Abstract == INSTANCE AbstractLocks WITH owners <- [l \in Locks |-> Owners(l)]
ImplementsLocks == Abstract!Spec

\* While some thread owns a TaggedLockPtr nobody changes the pointer in it:
\* compare_exchange() fails on the lock bit, and the whole-word updates of
\* lock() and unlock() never put back a pointer they read before.
PointerStable ==
    [][\A l \in TaggedPtrs :
          TaggedOwners(l) # {} => word'[l].ptr = word[l].ptr]_vars

\* Every contended lock() of a MicroLock returns, also when its bucket is
\* shared with other locks.
MicroLockReturns ==
    \A t \in Threads :
        (pc[t] = "spin" /\ target[t] \in MicroLocks) ~> pc[t] = "in"
=============================================================================
