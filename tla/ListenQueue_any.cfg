SPECIFICATION FairSpec
CONSTANTS
    Listeners = {l1, l2}
    Dialers = {d1}
    BufferCap = 1
    NoLock = NoLock
    NoQueue = NoQueue
INVARIANTS
    DeadEntryIsBeingDeleted
PROPERTIES
    CallsReturn
CHECK_DEADLOCK FALSE
