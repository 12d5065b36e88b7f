SPECIFICATION QueuesSpec
CONSTANTS
    requested = 1
    IndexModulus = 4
    MaxValues = 6
    Raw = Raw
    Producers = {p1, p2}
    Consumer = c
    Entries = {e1, e2, e3}
    Stub = Stub
    Null = Null
    MaxPushes = 2
    capacity = 2
    SizeModulus = 8
    NoValue = NoValue
INVARIANTS LiveSlots EntriesOwned SizeSettles
PROPERTIES RingImplementsQueue ListImplementsQueue ImplementsQueue Delivered DeliveredWhileOpen
