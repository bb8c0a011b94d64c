SPECIFICATION MCSpec
CONSTANTS
    NGroups = 2
    NIfaces = 2
    InitGroup <- TwoGroups
    Priority <- PriorityByIndex
    Persist = {}
    RequiresReboot = {}
    MaxPolThreads = 1
    MaxISMThreads = 1
    PhyAtBoot = {1, 2}
    Events <- FailOverEvents
    FailOverType = "HOTSWAP"
    SelectionTimeOut <- NoTimeOut
    RestorationDelay = 0
    MaxTimer = 1
    MaxEvents = 3
INVARIANTS
    TypeOK
    HandOverInv
    ActiveIsCurrent
    AtMostOneUp
PROPERTIES
    ScanInOrder
