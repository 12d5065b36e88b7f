SPECIFICATION Spec
CONSTANTS
    Threads = {a, b, c, d}
    Writers = {a, b}
    Readers = {b, c, d}
    MaxWrites = 1
INVARIANTS CountsExact NoLostWakeup
PROPERTIES ImplementsSharedLock WriterPreference WriterReturns ReaderWakes
