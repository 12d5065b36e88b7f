SPECIFICATION Spec
CONSTANTS
    Threads = {t1, t2, t3}
    Locks = {m, p}
    MicroLocks = {m}
    TaggedPtrs = {p}
    Pointers = {A, B}
    Buckets <- OneBucket
    hash_address <- Collide
    NoThread = NoThread
    MaxCalls <- TwoOneOne
    t1 = t1
INVARIANTS NodesAccounted FlaggedIsWoken MicroNoLostWakeup WaitersBitSet
PROPERTIES ImplementsLocks PointerStable MicroLockReturns
