SPECIFICATION MCFairSpec
CONSTANTS
    NGroups = 2
    NIfaces = 2
    InitGroup <- TwoGroups
    Priority <- PriorityByIndex
    Persist = {}
    RequiresReboot = {}
    MaxPolThreads = 1
    MaxISMThreads = 1
    PhyAtBoot = {1}
    Events <- PhyEvents
    FailOverType = "HOTSWAP"
    SelectionTimeOut <- NoTimeOut
    RestorationDelay = 0
    MaxTimer = 1
    MaxEvents = 2
PROPERTIES
    WanComesUp
    Restored
    LinkLossSeen
