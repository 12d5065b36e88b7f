SPECIFICATION Spec
CONSTANTS
    Threads = {t1, t2, t3}
    MaxCalls = 3
INVARIANTS WaitersCounted NoLostWakeup
PROPERTIES ImplementsLock LockReturns
