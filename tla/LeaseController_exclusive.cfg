SPECIFICATION Spec
CONSTANTS
    c1 = c1
    c2 = c2
    e1 = e1
    e2 = e2
    NoLease = NoLease
    NoExporter = NoExporter
    NoClient = NoClient
    Idle = Idle
    NoTime = NoTime
    Second = 1
    Leases = {l1, l2}
    Exporters = {e1, e2}
    Clients = {c1, c2}
    Rank <- TwoExporters
    Requests <- PolicyRequests
    UpdateRequests <- NoSet
    Updaters = {}
    Policies <- PriorityPolicies
    ExporterStates <- UpOrGone
    MaxTime = 1
    MaxRestarts = 1
    ReadYourWrites = TRUE
SYMMETRY Symmetry
INVARIANTS
    ExclusiveLease
    LabelledIsEnded
    LeaseRefWasAssigned
PROPERTIES
    AssignmentIsFinal
    PicksHighestPriority
    ImplementsExclusiveUse
CHECK_DEADLOCK FALSE
