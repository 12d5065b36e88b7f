SPECIFICATION BufferedSpec
CONSTANTS
    Readers = {r1}
    Updaters = {u}
    Reclaimers = {u}
    kMaxThreads = 1
    kInactiveEpoch = kInactiveEpoch
    NoNode = NoNode
    MaxNodes = 2
    MaxReclaims = 2
INVARIANT NoUseAfterFree
