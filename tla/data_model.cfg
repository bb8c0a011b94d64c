SPECIFICATION MCSpec
CONSTANTS
    NGroups = 2
    NIfaces = 1
    InitGroup <- TwoGroups
    Priority <- PriorityByIndex
    Persist = {}
    RequiresReboot = {}
    MaxPolThreads = 2
    MaxISMThreads = 1
    PhyAtBoot = {1}
    Events <- WriteEvents
    FailOverType = "HOTSWAP"
    SelectionTimeOut <- NoTimeOut
    RestorationDelay = 0
    MaxTimer = 1
    MaxEvents = 2
INVARIANTS
    JoinWaitsForThread
    PolicyIndexValid
    QuietWhenOff
    SingleSelectionThread
\* The controller may wait for Enable for good.
CHECK_DEADLOCK FALSE
