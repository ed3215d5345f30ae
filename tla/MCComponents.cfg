SPECIFICATION Spec
CONSTANTS
    None = None
    Peers = {"a", "b"}
    MaxFrames = 1
    Execs = {"a"}
    Shutters = {"b"}
    Waiters = {"a", "b"}
    MaxDeadlines = 2
    MaxErrors = 1
    Leases = {l1, l2}
    MaxEvents = 2
    MaxTime = 8
    Interval = 3
    Latency = 1
    Durations = {2, 6}
    MaxChanges = 1
    MaxFaults = 1
INVARIANTS
    CleanEnd
    NoOrphan
    ReleasedOnExit
    EndIsNoticed
PROPERTIES
    AllReturn
    ShutdownReturns
    ChildIsReaped
    WaitersReturn
    LeaseRefIsTold
CHECK_DEADLOCK FALSE
