SPECIFICATION Spec
CONSTANTS
    c1 = c1
    c2 = c2
    e1 = e1
    e2 = e2
    NoLease = NoLease
    NoExporter = NoExporter
    NoClient = NoClient
    Idle = Idle
    NoTime = NoTime
    Second = 2
    Leases = {l1}
    Exporters = {e1}
    Clients = {c1, c2}
    Rank <- OneExporter
    Requests <- TimedRequests
    UpdateRequests <- TimeChanges
    Updaters = {u1, u2}
    Policies <- NoSet
    ExporterStates <- UpOrBusy
    MaxTime = 3
    MaxRestarts = 0
    ReadYourWrites = FALSE
SYMMETRY UpdaterSymmetry
PROPERTIES
    TimesAreConsistent
    EndsForAReason
CHECK_DEADLOCK FALSE
