---------------------------- MODULE AbstractLock ----------------------------
(***************************************************************************)
(* What every exclusive lock of the library (Mutex, MicroLock,             *)
(* TaggedLockPtr) promises to its callers: lock() and a successful         *)
(* try_lock() return only while nobody owns the lock, and only its owner   *)
(* gives it up.                                                            *)
(***************************************************************************)
CONSTANT Threads
VARIABLE owners     \* the threads between the return of lock() and unlock()

Acquire(t) == owners = {} /\ owners' = {t}

Release(t) == owners = {t} /\ owners' = {}

Init == owners = {}

Next == \E t \in Threads : Acquire(t) \/ Release(t)

Spec == Init /\ [][Next]_owners
=============================================================================
