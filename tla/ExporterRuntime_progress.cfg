SPECIFICATION FairSpec
CONSTANTS
    Leases = {l1, l2}
    NoLease = NoLease
    Configs <- SoundConfigs
    EndsEarly = FALSE
    MaxReconnects = 0
    MaxFailures = 1
PROPERTIES
    EndedIsTornDown
    AssignedIsServed
    IdleIsAvailable
CHECK_DEADLOCK FALSE
