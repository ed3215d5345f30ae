SPECIFICATION Spec
CONSTANTS
    Listeners = {l1}
    Dialers = {d1, d2}
    BufferCap = 1
    NoLock = NoLock
    NoQueue = NoQueue
SYMMETRY Symmetry
INVARIANT
    SendsToLiveQueue
CHECK_DEADLOCK FALSE
