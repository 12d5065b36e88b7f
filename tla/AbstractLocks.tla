---------------------------- MODULE AbstractLocks ----------------------------
(***************************************************************************)
(* AbstractLock for a family of independent locks, of which one step       *)
(* acquires or releases one.                                               *)
(***************************************************************************)
CONSTANTS Threads, Locks
VARIABLE owners         \* owners[l]: the threads that own lock l

Acquire(t, l) == owners[l] = {} /\ owners' = [owners EXCEPT ![l] = {t}]

Release(t, l) == owners[l] = {t} /\ owners' = [owners EXCEPT ![l] = {}]

Init == owners = [l \in Locks |-> {}]

Next == \E t \in Threads, l \in Locks : Acquire(t, l) \/ Release(t, l)

Spec == Init /\ [][Next]_owners
=============================================================================
