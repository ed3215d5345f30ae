SPECIFICATION FairSpec
CONSTANTS
    Values = {"Available"}
    Minute = 2
    MaxFaults = 1
    None = None
    Keep = Keep
INVARIANTS
    SteadyReportIsKept
PROPERTIES
    SilentGoesOffline
    OnlineAgrees
CHECK_DEADLOCK FALSE
