SPECIFICATION Spec
CONSTANTS
    Readers = {r1, r2}
    Updaters = {u}
    Reclaimers = {u, v}
    kMaxThreads = 2
    kInactiveEpoch = kInactiveEpoch
    NoNode = NoNode
    MaxNodes = 3
    MaxReclaims = 2
SYMMETRY ReaderSymmetry
INVARIANTS NoUseAfterFree SlotsOwned RetiredAccounted
