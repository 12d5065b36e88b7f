SPECIFICATION RequeueSpec
CONSTANTS
    Producers = {p}
    Consumers = {c1}
    Timed = {}
    MaxCalls = 1
    MaxInterrupts = 0
PROPERTY WaitReturns
CHECK_DEADLOCK FALSE
