SPECIFICATION Spec
CONSTANTS
    Producers = {p}
    Consumers = {c1, c2}
    Timed = {c2}
    MaxCalls = 2
    MaxInterrupts = 1
INVARIANT SignalsSuffice
PROPERTIES ActsAsOwner WaitReturns
