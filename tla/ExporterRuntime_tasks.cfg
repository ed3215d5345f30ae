SPECIFICATION Spec
CONSTANTS
    Leases = {l1, l2}
    NoLease = NoLease
    Configs <- AllConfigs
    EndsEarly = TRUE
    MaxReconnects = 1
    MaxFailures = 1
SYMMETRY Symmetry
INVARIANTS
    OneSession
    HooksAreSerial
    HooksHaveASession
    FinishedOwnsSlot
CHECK_DEADLOCK FALSE
