SPECIFICATION Spec
CONSTANTS
    Producers = {p1, p2}
    capacity = 2
    MaxPushes = 1
    SizeModulus = 8
    NoValue = NoValue
PROPERTY AcceptedIsDelivered
