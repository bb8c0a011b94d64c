SPECIFICATION MCSpec
CONSTANTS
    NGroups = 1
    NIfaces = 2
    InitGroup <- OneGroup
    Priority <- PriorityByIndex
    Persist = {}
    RequiresReboot = {2}
    MaxPolThreads = 1
    MaxISMThreads = 1
    PhyAtBoot = {1, 2}
    Events <- LinkEvents
    FailOverType = "HOTSWAP"
    SelectionTimeOut <- NoTimeOut
    RestorationDelay = 0
    MaxTimer = 1
    MaxEvents = 2
INVARIANTS
    OneActiveLink
