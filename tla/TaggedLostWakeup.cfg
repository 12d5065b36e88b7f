SPECIFICATION Spec
CONSTANTS
    Threads = {t1, t2}
    Locks = {p}
    MicroLocks = {}
    TaggedPtrs = {p}
    Pointers = {A}
    Buckets <- OneBucket
    hash_address <- Collide
    NoThread = NoThread
    MaxCalls <- TwoOneOne
    t1 = t1
INVARIANT TaggedNoLostWakeup
