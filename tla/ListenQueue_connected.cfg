SPECIFICATION ConnectedFairSpec
CONSTANTS
    Listeners = {l1, l2}
    Dialers = {d1, d2}
    BufferCap = 1
    NoLock = NoLock
    NoQueue = NoQueue
INVARIANTS
    HeldLockIsCurrent
    Serialized
    SendsToLiveQueue
PROPERTIES
    AcceptedIsDelivered
CHECK_DEADLOCK FALSE
