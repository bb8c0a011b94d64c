CONSTANTS
    NGroups = 1
    NIfaces = 2
    InitGroup <- OneGroup
    Priority <- PriorityReversed
    Persist = {}
    RequiresReboot = {2}
    MaxPolThreads = 1
    MaxISMThreads = 1
    PhyAtBoot = {1, 2}
    LastSelected = {}
    Events <- ScanKinds
    MaxEvents = 2
SPECIFICATION MCFairSpec
CHECK_DEADLOCK FALSE
INVARIANTS SelectionConsistent
PROPERTIES PriorityFirst ScanComesUp
