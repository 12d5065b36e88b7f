------------------------- MODULE AbstractSharedLock -------------------------
(***************************************************************************)
(* What SharedMutex promises to its callers: an exclusive owner is alone,  *)
(* shared owners exclude only exclusive ones.                              *)
(***************************************************************************)
CONSTANT Threads
VARIABLES
    writers,    \* threads that own the lock exclusively
    readers     \* threads that own it shared

AcquireExclusive(t) ==
    /\ writers = {} /\ readers = {}
    /\ writers' = {t}
    /\ UNCHANGED readers

ReleaseExclusive(t) ==
    /\ writers = {t}
    /\ writers' = {}
    /\ UNCHANGED readers

AcquireShared(t) ==
    /\ writers = {} /\ t \notin readers
    /\ readers' = readers \cup {t}
    /\ UNCHANGED writers

ReleaseShared(t) ==
    /\ t \in readers
    /\ readers' = readers \ {t}
    /\ UNCHANGED writers

Init == writers = {} /\ readers = {}

Next ==
    \E t \in Threads : \/ AcquireExclusive(t) \/ ReleaseExclusive(t)
                       \/ AcquireShared(t) \/ ReleaseShared(t)

Spec == Init /\ [][Next]_<<writers, readers>>
=============================================================================
