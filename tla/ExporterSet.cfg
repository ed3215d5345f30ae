SPECIFICATION FairSpec
CONSTANTS
    Slots = {1, 2, 3}
    Specs <- SmallSpecs
    Others <- OnlyShared
    Cooldown = 2
    MaxLeases = 1
    MaxFaults = 1
    ReadYourWrites = TRUE
    None = None
INVARIANTS
    WithinMax
PROPERTIES
    OneDisablePerCooldown
    PoolSettles
    DemandIsMet
CHECK_DEADLOCK FALSE
