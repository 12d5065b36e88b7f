SPECIFICATION Spec
CONSTANTS
    Threads = {t1, t2, t3}
    MaxCalls <- TwoTwoOne
    MaxPhases = 3
    Backend = "fallback"
    LatchCount = 3
    PhaseModulus = 2
    Desired = 0
    MaxCount = 3
    Resetter = t1
    MaxThrows = 1
    TicketModulus = 5
    Mutexes = {m1, m2}
    Objects = {g1, g2, g3}
    nullptr = nullptr
    MaxHeld = 3
    Kinds = {"semaphore"}
PROPERTY EveryoneReturns
