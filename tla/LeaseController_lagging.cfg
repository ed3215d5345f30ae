SPECIFICATION Spec
CONSTANTS
    c1 = c1
    c2 = c2
    e1 = e1
    e2 = e2
    NoLease = NoLease
    NoExporter = NoExporter
    NoClient = NoClient
    Idle = Idle
    NoTime = NoTime
    Second = 1
    Leases = {l1, l2}
    Exporters = {e1}
    Clients = {c1}
    Rank <- OneExporter
    Requests <- ContendedRequests
    UpdateRequests <- NoSet
    Updaters = {}
    Policies <- NoSet
    ExporterStates <- UpOnly
    MaxTime = 1
    MaxRestarts = 0
    ReadYourWrites = FALSE
INVARIANTS
    ExclusiveLease
CHECK_DEADLOCK FALSE
