SPECIFICATION MCFairSpec
CONSTANTS
    NGroups = 1
    NIfaces = 1
    InitGroup <- OneGroup
    Priority <- PriorityByIndex
    Persist = {}
    RequiresReboot = {}
    MaxPolThreads = 1
    MaxISMThreads = 1
    PhyAtBoot = {1}
    Events <- RequestEvents
    FailOverType = "HOTSWAP"
    SelectionTimeOut <- NoTimeOut
    RestorationDelay = 0
    MaxTimer = 1
    MaxEvents = 2
PROPERTIES
    DisableStops
    ConfigChangeApplied
    ResetSelectedDone
\* The controller may wait for Enable for good.
CHECK_DEADLOCK FALSE
